---- MODULE Spec2Model ----
(***************************************************************************)
(* Verification model of the LLMSearcher agent core.                       *)
(*                                                                         *)
(*   - ContextManager / MessageHistory                                     *)
(*       src/brows_er(unfinished)/Agent/contextmanager/service.py          *)
(*   - Agent (run loop, step, cleanup)                                     *)
(*       src/brows_er(unfinished)/Agent/service/service.py                 *)
(*   - WorkAssistant (execute_task, execute_step, close)   src/main.py     *)
(*   - WorkAssistant.deep_search and the result loop of _execute_search    *)
(*       src/main.py                                                       *)
(*   - LLMClient (create, _make_request) and evaluate_content_quality      *)
(*       src/main.py                                                       *)
(*   - retry_on_error                                      src/main.py     *)
(*   - AgentView (post, delete)                                            *)
(*       src/brows_er(unfinished)/Agent/service/views.py                   *)
(*   - TaskParser.parse_llm_response                       src/main.py     *)
(*   - WorkAssistant._execute_click_result, _execute_extract_text          *)
(*       src/main.py                                                       *)
(*   - ContextManager.add_state_message, message by message                *)
(*       src/brows_er(unfinished)/Agent/contextmanager/service.py          *)
(*   - ControllerService (execute_action, execute_actions)                 *)
(*       src/brows_er(unfinished)/Controller/service.py                    *)
(*   - the browser services of an Agent and of its controller              *)
(*       src/brows_er(unfinished)/Agent/service/service.py                 *)
(*                                                                         *)
(* Each component is a state machine over its own variables; a component   *)
(* specification (SpecCtx, SpecHist, SpecScenario, SpecAgent, SpecView,    *)
(* SpecWA, SpecDS, SpecSearch, SpecLLM, SpecRetry, SpecParse, SpecClick,   *)
(* SpecExtract, SpecTold, SpecController, SpecWired) leaves the variables  *)
(* of the other components at their initial values.                        *)
(***************************************************************************)
EXTENDS Integers, Sequences, FiniteSets, TLC

VARIABLES
    \* ---- ContextManager ----
    messages,         \* history.messages: sequence of message records
    total_tokens,     \* history.total_tokens
    tokens_per_char,  \* ContextManager.tokens_per_char (constructor argument)
    ctxLast,          \* last ContextManager operation and how it ended
    apiOnly           \* TRUE while every message was added through
                      \* add_state_message / add_model_output / system message

VARIABLES
    \* ---- Agent ----
    steps,            \* Agent.steps
    failures,         \* Agent.failures
    last_result,      \* Agent._last_result (None is modelled as <<>>: the
                      \* code only tests its truth value)
    agentPc,          \* position of run(): "loop", "cleanup", "exited"
    ownOutcome,       \* what run() decided to return or raise
    outcome,          \* what the caller of run() receives
    cleanupCalls,     \* number of _cleanup() invocations
    closeCalls,       \* number of browser_service.close() calls
    invocations,      \* number of step() invocations (saturating counter)
    agentLast         \* last event of the run

VARIABLES
    \* ---- WorkAssistant ----
    driver,             \* self.driver: None or the id of a driver
    wait,               \* self.wait: None or the id of the driver it waits on
    auto_close_browser, \* constructor argument
    collected_info,     \* self.collected_info: task number of each entry
    waPc,               \* position of execute_task: "idle", "plan", "setup",
                        \* "get", "parse", "steps", "format"
    plan,               \* steps returned by parse_task
    idx,                \* position of the `for step in steps` loop
    executed,           \* execute_step calls of the current task, in order
    taskNo,             \* number of execute_task invocations so far
    quitByClose,        \* driver id -> driver.quit() calls made by close()
    quitBySetup,        \* driver id -> driver.quit() calls made by setup_driver
    result,             \* local of execute_task: the list the invocation
                        \* that has just returned built its result from;
                        \* <<>> at any other moment
    waLast              \* last WorkAssistant operation and how it ended

VARIABLES
    \* ---- deep_search and the tabs of the browser ----
    search_config,         \* self.search_config: deep_search, max_pages,
                           \* max_results, max_depth, quality_threshold
                           \* (scores are in tenths)
    web,                   \* the pages: url -> links of the page and score
                           \* the model replies for its content
    window_handles,        \* driver.window_handles, oldest tab first
    current_window_handle, \* the focused tab; it is no element of
                           \* window_handles once that tab has been closed
    stack,                 \* activations of deep_search, innermost last
    search,                \* the result loop of _execute_search: its locals
                           \* and its position ("idle" outside the loop)
    scored,                \* urls handed to evaluate_content_quality since
                           \* the top-level call, in order
    faults,                \* driver calls that raised although their window
                           \* existed
    dsLast                 \* last deep_search event

VARIABLES
    \* ---- LLMClient and evaluate_content_quality ----
    posts,            \* outcome of each session.post of the last call
    llmLast           \* last call: operation, input, how it ended

VARIABLES
    \* ---- retry_on_error ----
    retry_args,       \* arguments of the decorator: max_retries, delay
    attempts,         \* outcome of each invocation of the wrapped function
    sleeps,           \* argument of each time.sleep call of the wrapper
    last_error,       \* local variable of the wrapper
    retryPc,          \* position of the wrapper: "call", "sleep", "done"
    retryOutcome      \* what the caller of the wrapper receives

VARIABLES
    \* ---- AgentView ----
    agents,           \* self.agents: ids of the agents the view holds
    post_response,    \* response of post, once it has answered
    delete_response,  \* response of delete, once it has answered
    cancelledAt       \* number of step() invocations so far when delete
                      \* cleaned the agent up; -1 before

VARIABLES
    \* ---- TaskParser ----
    reply,            \* the reply of the LLM: a plan, what surrounds its
                      \* object, what the text lacks
    parsed            \* outcome of parse_llm_response(reply); raised = "-"
                      \* before the call

VARIABLES
    \* ---- _execute_click_result ----
    click,            \* the call: its position ("idle", "done"), the value
                      \* returned, the results opened in a new tab, the
                      \* driver call that raised
    click_results,    \* the results of the page
    click_params      \* ClickParams of the step

VARIABLES
    \* ---- _execute_extract_text ----
    extract,          \* the call: its position, the value returned, the
                      \* entries appended to collected_info, the selectors
                      \* tried
    extract_page,     \* the page: selector -> elements
    extract_params    \* ExtractParams of the step

VARIABLES
    \* ---- add_state_message, by message ----
    told,             \* the call: its position and the messages of the
                      \* history, each with its kind and text
    told_result,      \* the argument `result`
    max_error_length  \* ContextManager.max_error_length

VARIABLES
    \* ---- ControllerService ----
    controlled,       \* the call of execute_actions: its position, what it
                      \* raised, the list it returned
    ctl_registry,     \* self.registry: the names registered
    ctl_actions       \* the argument `actions`

VARIABLES
    \* ---- the browser services of an Agent ----
    wired             \* position ("new", "loop", "exited", "failed"), the
                      \* BrowserService objects made so far, which of them
                      \* is agent.browser_service and which is
                      \* agent.controller.browser_service, the urls the
                      \* controller has navigated to

ctxVars == <<messages, total_tokens, tokens_per_char, ctxLast, apiOnly>>

agentVars == <<steps, failures, last_result, agentPc, ownOutcome, outcome,
               cleanupCalls, closeCalls, invocations, agentLast>>

waVars == <<driver, wait, auto_close_browser, collected_info, waPc, plan, idx,
            executed, taskNo, quitByClose, quitBySetup, result, waLast>>

dsVars == <<search_config, web, window_handles, current_window_handle, stack,
            search, scored, faults, dsLast>>

llmVars == <<posts, llmLast>>

retryVars == <<retry_args, attempts, sleeps, last_error, retryPc, retryOutcome>>

viewVars == <<agents, post_response, delete_response, cancelledAt>>

parseVars == <<reply, parsed>>

clickVars == <<click, click_results, click_params>>

extractVars == <<extract, extract_page, extract_params>>

toldVars == <<told, told_result, max_error_length>>

controllerVars == <<controlled, ctl_registry, ctl_actions>>

wiredVars == <<wired>>

vars == <<ctxVars, agentVars, waVars, dsVars, llmVars, retryVars, viewVars,
          parseVars, clickVars, extractVars, toldVars, controllerVars,
          wiredVars>>

(***************************************************************************)
(* Bounds of the model.  The configuration values of ContextManager        *)
(* (max_input_tokens = 128000, image_tokens = 800) are scaled down.        *)
(***************************************************************************)
MaxInputTokens == 14
ImageTokens == 5
TokensPerChar == 3     \* default of estimated_tokens_per_char
MaxLen == 22
MaxMsgs == 5          \* messages held, ContextManager operations
MaxHistMsgs == 3      \* messages held, direct MessageHistory operations
MaxRawTokens == 1
SystemLen == 3        \* length of the system prompt
ExampleLen == 2       \* length of str(tool_calls) of the example tool call
TaskLen == 2          \* length of the task message
MaxErrorLength == 4   \* max_error_length

Img == -1

Min(a, b) == IF a < b THEN a ELSE b
Max(a, b) == IF a > b THEN a ELSE b

(***************************************************************************)
(* Message contents.  A text is modelled by its length.  A message is      *)
(*   isList = FALSE : content is a string of `len` characters              *)
(*   isList = TRUE  : content is a list; items[i] = Img for an image_url   *)
(*                    item, or n >= 0 for a text item of n characters      *)
(* input_tokens is metadata.input_tokens.                                  *)
(***************************************************************************)
TextLens == {0, 9, MaxLen}

TextMessage(n, tok) ==
    [isList |-> FALSE, items |-> <<>>, len |-> n, input_tokens |-> tok]

ListMessage(its, tok) ==
    [isList |-> TRUE, items |-> its, len |-> 0, input_tokens |-> tok]

\* _count_text_tokens: llm.get_num_tokens is taken to be unavailable (it
\* raises), so the except branch computes len(text) // tokens_per_char.
_count_text_tokens(n, c) == n \div c

RECURSIVE CountItems(_, _)
CountItems(its, c) ==
    IF its = <<>> THEN 0
    ELSE (IF Head(its) = Img THEN ImageTokens ELSE _count_text_tokens(Head(its), c))
         + CountItems(Tail(its), c)

\* _count_tokens(message)
_count_tokens(isList, its, n, c) ==
    IF isList THEN CountItems(its, c) ELSE _count_text_tokens(n, c)

RECURSIVE SumTokens(_)
SumTokens(msgs) ==
    IF msgs = <<>> THEN 0
    ELSE Head(msgs).input_tokens + SumTokens(Tail(msgs))

\* list.remove(item) for an image item: deletes the first equal element.
RECURSIVE RemoveFirstImg(_)
RemoveFirstImg(its) ==
    IF its = <<>> THEN <<>>
    ELSE IF Head(its) = Img THEN Tail(its)
    ELSE <<Head(its)>> \o RemoveFirstImg(Tail(its))

(***************************************************************************)
(* The loop `for item in msg.message.content` of _trim_messages, which     *)
(* removes image items from the list it is iterating over.  Python's list  *)
(* iterator keeps an index, so the element following a removed one is      *)
(* skipped.  i is the iterator's next position (1-based), text the length  *)
(* of the accumulated text, removed the number of images removed.          *)
(***************************************************************************)
RECURSIVE StripImages(_, _, _, _)
StripImages(its, i, text, removed) ==
    IF i > Len(its) THEN [text |-> text, removed |-> removed]
    ELSE IF its[i] = Img
         THEN StripImages(RemoveFirstImg(its), i + 1, text, removed + 1)
         ELSE StripImages(its, i + 1, text + its[i], removed)

(***************************************************************************)
(* int(len(content) * (diff / input_tokens)) in IEEE-754 double            *)
(* arithmetic, for 0 < diff <= input_tokens (input_tokens is never         *)
(* negative here, and a larger diff raises before this point).  The        *)
(* quotient is rounded before the multiplication, so the product can fall  *)
(* just below an exact integer and int() then yields one less than the     *)
(* exact floor.  FloatRoundsDown lists every <<len, input_tokens, diff>>   *)
(* with len <= 25 and diff <= input_tokens <= 40 where CPython does so;    *)
(* everywhere else in that range the result is the exact floor.            *)
(***************************************************************************)
FloatRoundsDown == { <<22, 22, 15>>, <<23, 23, 13>> }

\* chars_to_remove = int(len(content) * proportion)
\* the same for input_tokens = 150, len in {150, 450, 451, 452} and
\* 50 <= diff <= 148
FloatRoundsDown150 ==
    { <<150, 150, 55>>, <<150, 150, 79>>, <<150, 150, 97>>, <<150, 150, 110>>,
      <<150, 150, 123>>, <<450, 150, 79>>, <<450, 150, 82>> }

chars_to_remove(n, diff, tok) ==
    ((n * diff) \div tok)
    - (IF <<n, tok, diff>> \in FloatRoundsDown \cup FloatRoundsDown150
       THEN 1 ELSE 0)

\* len(content[:-k]) for a string of n characters
SliceLen(n, k) ==
    IF k > 0 THEN Max(0, n - k)
    ELSE 0                        \* content[:-0] is content[:0], the empty string

\* proportion > 0.99, proportion = diff / input_tokens (input_tokens # 0)
ProportionOver(diff, tok) == tok > 0 /\ 100 * diff > 99 * tok

(***************************************************************************)
(* ContextManager._trim_messages on history (msgs, total) with             *)
(* tokens_per_char = c.  Returns the history it leaves and how it ended:   *)
(*   result "ok" (returned) or the exception raised; how = the path taken. *)
(***************************************************************************)
TrimOutcome(msgs, total, res, how) ==
    [messages |-> msgs, total_tokens |-> total, result |-> res, how |-> how]

trim(msgs, total, c, max_input_tokens) ==
    LET diff0 == total - max_input_tokens
        n     == Len(msgs)
    IN
    IF diff0 <= 0 THEN TrimOutcome(msgs, total, "ok", "within")
    ELSE IF n = 0 THEN TrimOutcome(msgs, total, "IndexError", "empty")
    ELSE
      LET msg    == msgs[n]
          s      == IF msg.isList THEN StripImages(msg.items, 1, 0, 0)
                    ELSE [text |-> msg.len, removed |-> 0]
          msg1   == IF msg.isList
                    THEN TextMessage(s.text,
                                     msg.input_tokens - s.removed * ImageTokens)
                    ELSE msg
          msgs1  == [msgs EXCEPT ![n] = msg1]
          total1 == total - s.removed * ImageTokens
          diff   == diff0 - s.removed * ImageTokens
      IN
      IF diff <= 0 THEN TrimOutcome(msgs1, total1, "ok", "stripped")
      ELSE IF msg1.input_tokens = 0
           THEN TrimOutcome(msgs1, total1, "ZeroDivisionError", "raise")
      ELSE IF ProportionOver(diff, msg1.input_tokens)
           THEN TrimOutcome(msgs1, total1, "ValueError", "raise")
      ELSE
        LET k      == chars_to_remove(msg1.len, diff, msg1.input_tokens)
            newlen == SliceLen(msg1.len, k)
            newmsg == TextMessage(newlen, _count_tokens(FALSE, <<>>, newlen, c))
        IN TrimOutcome(Append(SubSeq(msgs1, 1, n - 1), newmsg),
                       total1 - msg1.input_tokens + newmsg.input_tokens,
                       "ok", "cut")

\* a trim that makes room by dropping the oldest message
_trim_messages_oldest(msgs, total, c) ==
    IF total - MaxInputTokens <= 0 THEN TrimOutcome(msgs, total, "ok", "within")
    ELSE IF msgs = <<>> THEN TrimOutcome(msgs, total, "IndexError", "empty")
    ELSE TrimOutcome(Tail(msgs), total - Head(msgs).input_tokens, "ok", "cut")

\* _trim_messages of a manager whose max_input_tokens is MaxInputTokens
_trim_messages(msgs, total, c) == trim(msgs, total, c, MaxInputTokens)

(***************************************************************************)
(* ContextManager operations.                                              *)
(***************************************************************************)
CtxOp(op, res, how) == [op |-> op, result |-> res, how |-> how]

\* add_message that does not count the tokens of the message
add_message_nocount(msgs, total, m) ==
    [messages |-> Append(msgs, m), total_tokens |-> total]

\* MessageHistory.add_message(message, metadata)
add_message(msgs, total, m) ==
    [messages |-> Append(msgs, m), total_tokens |-> total + m.input_tokens]

\* ContextManager._add_message_with_tokens for a string of n characters
AddText(h, n, c) ==
    add_message(h.messages, h.total_tokens,
                TextMessage(n, _count_tokens(FALSE, <<>>, n, c)))

\* ContextManager._add_message_with_tokens for a list content
AddList(h, its, c) ==
    add_message(h.messages, h.total_tokens,
                ListMessage(its, _count_tokens(TRUE, its, 0, c)))

\* ContextManager.__init__: system message, example tool call
\* (tool_call_in_content = True, the default), task message.
CtxConstructed(c) ==
    AddText(AddText(AddText([messages |-> <<>>, total_tokens |-> 0],
                            SystemLen, c),
                    ExampleLen, c),
            TaskLen, c)

\* estimated_tokens_per_char is the default or 1 (one token per character)
InitCtx ==
    \E c \in {1, TokensPerChar} :
        /\ tokens_per_char = c
        /\ messages = CtxConstructed(c).messages
        /\ total_tokens = CtxConstructed(c).total_tokens
        /\ ctxLast = CtxOp("__init__", "ok", "text")
        /\ apiOnly = TRUE

\* add_model_output(output): one AIMessage whose content is str(tool_calls)
\* or '' (tool_call_in_content false)
add_model_output(n) ==
    /\ Len(messages) < MaxMsgs
    /\ LET h == AddText([messages |-> messages, total_tokens |-> total_tokens],
                        n, tokens_per_char)
       IN /\ messages' = h.messages
          /\ total_tokens' = h.total_tokens
    /\ ctxLast' = CtxOp("add_model_output", "ok", "text")
    /\ UNCHANGED <<tokens_per_char, apiOnly, agentVars, waVars,
                   dsVars, llmVars, retryVars, viewVars,
                   parseVars, clickVars, extractVars, toldVars,
                   controllerVars, wiredVars>>

(***************************************************************************)
(* add_state_message(state, result, step_info).  A result r is             *)
(* [content: length of str(r.content), 0 when empty; error: length of      *)
(* str(r.error), 0 when empty; include_in_memory].  n is the length of the *)
(* state description composed by AgentMessagePrompt, shot whether the      *)
(* state carries a screenshot.                                             *)
(***************************************************************************)
ActionResults ==
    [content : {0, 3}, error : {0, 6}, include_in_memory : BOOLEAN]

ResultInputs == {<<>>} \cup {<<r>> : r \in ActionResults}

\* len(s[-k:]) for a string of n characters: s[-0:] is the whole string
TailLen(n, k) == IF k = 0 THEN n ELSE Min(n, k)

\* the two prefixes '动作结果: ' and '动作错误: ' are 6 characters each
PrefixLen == 6

RECURSIVE FoldResults(_, _, _)
FoldResults(h, rs, c) ==
    IF rs = <<>> THEN h
    ELSE LET r  == Head(rs)
             h1 == IF r.include_in_memory /\ r.content > 0
                   THEN AddText(h, PrefixLen + r.content, c) ELSE h
             h2 == IF r.include_in_memory /\ r.error > 0
                   THEN AddText(h1, PrefixLen + TailLen(r.error, MaxErrorLength), c)
                   ELSE h1
         IN FoldResults(h2, Tail(rs), c)

StateMessageAdded(h, n, shot, c) ==
    IF shot THEN AddList(h, <<n, Img>>, c) ELSE AddText(h, n, c)

add_state_message(n, shot, rs) ==
    LET h0 == [messages |-> messages, total_tokens |-> total_tokens]
        h  == StateMessageAdded(FoldResults(h0, rs, tokens_per_char),
                                n, shot, tokens_per_char)
    IN /\ Len(h.messages) <= MaxMsgs
       /\ messages' = h.messages
       /\ total_tokens' = h.total_tokens
       /\ ctxLast' = CtxOp("add_state_message", "ok",
                           IF shot THEN "image" ELSE "text")
       /\ UNCHANGED <<tokens_per_char, apiOnly, agentVars, waVars,
                   dsVars, llmVars, retryVars, viewVars,
                   parseVars, clickVars, extractVars, toldVars,
                   controllerVars, wiredVars>>

\* MessageHistory.add_message called directly with a string message and
\* arbitrary metadata
history_add_message(n, tok) ==
    /\ Len(messages) < MaxHistMsgs
    /\ LET h == add_message(messages, total_tokens, TextMessage(n, tok))
       IN /\ messages' = h.messages
          /\ total_tokens' = h.total_tokens
    /\ ctxLast' = CtxOp("add_message", "ok", "text")
    /\ apiOnly' = FALSE
    /\ UNCHANGED <<tokens_per_char, agentVars, waVars,
                   dsVars, llmVars, retryVars, viewVars,
                   parseVars, clickVars, extractVars, toldVars,
                   controllerVars, wiredVars>>

\* _add_message_with_tokens called with an arbitrary list content
RawContents == { <<9, Img>>, <<Img, 9>>, <<Img, Img>> }

add_message_with_tokens(its) ==
    /\ Len(messages) < MaxHistMsgs
    /\ LET h == AddList([messages |-> messages, total_tokens |-> total_tokens],
                        its, tokens_per_char)
       IN /\ messages' = h.messages
          /\ total_tokens' = h.total_tokens
    /\ ctxLast' = CtxOp("_add_message_with_tokens", "ok", "image")
    /\ apiOnly' = FALSE
    /\ UNCHANGED <<tokens_per_char, agentVars, waVars,
                   dsVars, llmVars, retryVars, viewVars,
                   parseVars, clickVars, extractVars, toldVars,
                   controllerVars, wiredVars>>

\* list.pop(index): Python accepts -len <= index < len
PopPos(n, index) == IF index < 0 THEN n + index + 1 ELSE index + 1

RemoveAt(msgs, k) == SubSeq(msgs, 1, k - 1) \o SubSeq(msgs, k + 1, Len(msgs))

\* MessageHistory.remove_message(index)
remove_message(msgs, total, index) ==
    LET n == Len(msgs)
        k == PopPos(n, index)
    IN IF n = 0
       THEN [messages |-> msgs, total_tokens |-> total, result |-> "ok"]
       ELSE IF k < 1 \/ k > n
       THEN [messages |-> msgs, total_tokens |-> total, result |-> "IndexError"]
       ELSE [messages |-> RemoveAt(msgs, k),
             total_tokens |-> total - msgs[k].input_tokens, result |-> "ok"]

RemoveMessage(index) ==
    LET r == remove_message(messages, total_tokens, index)
    IN /\ messages' = r.messages
       /\ total_tokens' = r.total_tokens
       /\ ctxLast' = CtxOp("remove_message", r.result, "text")
       /\ apiOnly' = FALSE
       /\ UNCHANGED <<tokens_per_char, agentVars, waVars,
                   dsVars, llmVars, retryVars, viewVars,
                   parseVars, clickVars, extractVars, toldVars,
                   controllerVars, wiredVars>>

\* get_messages(): _trim_messages(), then the list of messages
get_messages ==
    LET t == _trim_messages(messages, total_tokens, tokens_per_char)
    IN /\ messages' = t.messages
       /\ total_tokens' = t.total_tokens
       /\ ctxLast' = CtxOp("get_messages", t.result, t.how)
       /\ UNCHANGED <<tokens_per_char, apiOnly, agentVars, waVars,
                   dsVars, llmVars, retryVars, viewVars,
                   parseVars, clickVars, extractVars, toldVars,
                   controllerVars, wiredVars>>

\* the operations of ContextManager
NextCtx ==
    \/ \E n \in TextLens : add_model_output(n)
    \/ \E n \in TextLens, shot \in BOOLEAN, rs \in ResultInputs :
           add_state_message(n, shot, rs)
    \/ get_messages

\* the operations of MessageHistory, and the trim working on it
NextHist ==
    \/ \E tok \in 0..MaxRawTokens : history_add_message(MaxLen, tok)
    \/ \E its \in RawContents : add_message_with_tokens(its)
    \/ \E index \in (0 - MaxHistMsgs)..(MaxHistMsgs - 1) : RemoveMessage(index)
    \/ get_messages

(***************************************************************************)
(* The trim of a manager with max_input_tokens = 100 whose last message    *)
(* is a text costing 150 tokens.  An older message of `earlier` tokens may *)
(* precede it.                                                             *)
(***************************************************************************)
MaxEarlier == 30

Scenario == [max_input_tokens |-> 100, cost |-> 150]

\* the lengths of a text that costs `cost` tokens: len // c = cost
LensCosting(cost, c) == (cost * c)..(cost * c + c - 1)

ScenarioHistory(earlier, n, c) ==
    LET h0 == [messages |-> <<>>, total_tokens |-> 0]
        h1 == IF earlier > 0 THEN AddText(h0, earlier * c, c) ELSE h0
    IN AddText(h1, n, c)

InitScenario ==
    \E c \in {1, TokensPerChar}, earlier \in 0..MaxEarlier :
      \E n \in LensCosting(Scenario.cost, c) :
        /\ tokens_per_char = c
        /\ messages = ScenarioHistory(earlier, n, c).messages
        /\ total_tokens = ScenarioHistory(earlier, n, c).total_tokens
        /\ ctxLast = CtxOp("_add_message_with_tokens", "ok", "text")
        /\ apiOnly = TRUE

\* get_messages() of that manager
ScenarioTrim ==
    /\ ctxLast.op # "get_messages"
    /\ LET t == trim(messages, total_tokens, tokens_per_char,
                     Scenario.max_input_tokens)
       IN /\ messages' = t.messages
          /\ total_tokens' = t.total_tokens
          /\ ctxLast' = CtxOp("get_messages", t.result, t.how)
    /\ UNCHANGED <<tokens_per_char, apiOnly, agentVars, waVars,
                   dsVars, llmVars, retryVars, viewVars,
                   parseVars, clickVars, extractVars, toldVars,
                   controllerVars, wiredVars>>

NextScenario == ScenarioTrim

(***************************************************************************)
(* Agent: run(), step(), _should_stop(), _cleanup().                       *)
(* max_steps and max_failures are constructor arguments (defaults 10, 3).  *)
(***************************************************************************)
max_steps == 3
max_failures == 2

\* cap of the ghost counter `invocations`
InvCap == max_steps + max_failures + 1

\* An ActionResult, reduced to the two fields run() and its callers inspect.
ActionResult(err, done) == [error |-> err, is_done |-> done]

AnyResult == [error : BOOLEAN, is_done : BOOLEAN]

\* What controller.execute_actions can return: no result, one result, or a
\* plain result followed by one more.
ResultLists ==
    {<<>>} \cup {<<r>> : r \in AnyResult}
           \cup {<<ActionResult(FALSE, FALSE), r>> : r \in AnyResult}

Last(rs) == rs[Len(rs)]

HasError(rs) == rs # <<>> /\ Last(rs).error

Outcome(kind, value) == [kind |-> kind, value |-> value]

NoOutcome == Outcome("none", <<>>)

InitAgent ==
    /\ steps = 0
    /\ failures = 0
    /\ last_result = <<>>
    /\ agentPc = "loop"
    /\ ownOutcome = NoOutcome
    /\ outcome = NoOutcome
    /\ cleanupCalls = 0
    /\ closeCalls = 0
    /\ invocations = 0
    /\ agentLast = "start"

\* Agent._should_stop
_should_stop == steps >= max_steps \/ failures >= max_failures

\* a test that asks every result of the step to be done
IsDoneAll(rs) == rs # <<>> /\ \A i \in 1..Len(rs) : rs[i].is_done

\* `result and result[-1].is_done` in run()
IsDone(rs) == rs # <<>> /\ Last(rs).is_done

(***************************************************************************)
(* One iteration of the loop of run() in which the body of step() runs to  *)
(* its end: execute_actions returned `results`.  step() stores them,       *)
(* counts the step and returns them; run() returns them when the last one  *)
(* is done and otherwise loops.                                            *)
(***************************************************************************)
StepReturns(results) ==
    /\ agentPc = "loop"
    /\ ~_should_stop
    /\ last_result' = results
    /\ steps' = steps + 1
    /\ invocations' = Min(invocations + 1, InvCap)
    /\ agentLast' = IF HasError(results) THEN "step_error" ELSE "step_ok"
    /\ IF IsDone(results)
       THEN /\ ownOutcome' = Outcome("returned", results)
            /\ agentPc' = "cleanup"
       ELSE UNCHANGED <<ownOutcome, agentPc>>
    /\ UNCHANGED <<failures, outcome, cleanupCalls, closeCalls, ctxVars, waVars,
                   dsVars, llmVars, retryVars, viewVars,
                   parseVars, clickVars, extractVars, toldVars,
                   controllerVars, wiredVars>>

(***************************************************************************)
(* One iteration in which a collaborator raises inside step()              *)
(* (analyze_page, the model call, _parse_actions, execute_actions).  The   *)
(* except clause of step() turns the exception into the returned value     *)
(* [ActionResult(error=str(e))]; nothing of the agent's state is updated,  *)
(* the result is not done, and run() loops.  Since step() never raises,    *)
(* the except clause of run() (the only place that counts failures) has no *)
(* step that enables it.                                                   *)
(***************************************************************************)
StepCaught ==
    /\ agentPc = "loop"
    /\ ~_should_stop
    /\ invocations' = Min(invocations + 1, InvCap)
    /\ agentLast' = "step_caught"
    /\ UNCHANGED <<steps, failures, last_result, agentPc, ownOutcome, outcome,
                   cleanupCalls, closeCalls, ctxVars, waVars,
                   dsVars, llmVars, retryVars, viewVars,
                   parseVars, clickVars, extractVars, toldVars,
                   controllerVars, wiredVars>>

\* The loop condition fails: `return self._last_result or []`
LoopExit ==
    /\ agentPc = "loop"
    /\ _should_stop
    /\ ownOutcome' = Outcome("returned", last_result)
    /\ agentPc' = "cleanup"
    /\ agentLast' = "loop_exit"
    /\ UNCHANGED <<steps, failures, last_result, outcome, cleanupCalls,
                   closeCalls, invocations, ctxVars, waVars,
                   dsVars, llmVars, retryVars, viewVars,
                   parseVars, clickVars, extractVars, toldVars,
                   controllerVars, wiredVars>>

\* _cleanup without its except clause: the exception of close() leaves run()
_cleanup_propagates(closeRaises, own) ==
    IF closeRaises THEN Outcome("raised", <<>>) ELSE own

\* What leaves run() once _cleanup has run, browser_service.close() having
\* raised or not: _cleanup catches the exception and logs it.
_cleanup(closeRaises, own) == own

\* The finally clause of run(): await self._cleanup()
Cleanup(closeRaises) ==
    /\ agentPc = "cleanup"
    /\ cleanupCalls' = cleanupCalls + 1
    /\ closeCalls' = closeCalls + 1
    /\ outcome' = _cleanup(closeRaises, ownOutcome)
    /\ agentPc' = "exited"
    /\ agentLast' = IF closeRaises THEN "cleanup_failed" ELSE "cleanup_ok"
    /\ UNCHANGED <<steps, failures, last_result, ownOutcome, invocations,
                   ctxVars, waVars,
                   dsVars, llmVars, retryVars, viewVars,
                   parseVars, clickVars, extractVars, toldVars,
                   controllerVars, wiredVars>>

NextAgent ==
    \/ \E results \in ResultLists : StepReturns(results)
    \/ StepCaught
    \/ LoopExit
    \/ \E closeRaises \in BOOLEAN : Cleanup(closeRaises)

(***************************************************************************)
(* AgentView: post and delete                                              *)
(*   src/brows_er(unfinished)/Agent/service/views.py                       *)
(* One view object and the agent its post created and stored in            *)
(* self.agents (lines 45-56); run() is the Agent state machine above.      *)
(***************************************************************************)
AgentId == "agent-1"

\* The class of the objects in the list run() returns.  post reads
\* r.content, r.error and r.is_done of each.  The ActionResult of
\* Agent/service/service.py has a field `content`; the ActionResult of
\* Controller/service.py, which ControllerService.execute_actions builds,
\* has `extracted_content` instead and no `content`.
ResultClasses == {"Agent.ActionResult", "Controller.ActionResult"}

has_content(cls) == cls = "Agent.ActionResult"

NoResponse == [code |-> 0, status |-> "-", results |-> <<>>, error |-> "-"]

Response(code, status, results, error) ==
    [code |-> code, status |-> status, results |-> results, error |-> error]

InitView ==
    /\ agents = {AgentId}
    /\ post_response = NoResponse
    /\ delete_response = NoResponse
    /\ cancelledAt = -1

\* `"completed" if results and results[-1].is_done else "failed"`
status(results) == IF IsDone(results) THEN "completed" ELSE "failed"

\* post after `results = await agent.run()`: the response data are built from
\* the results; an exception of run() or of the formatting (AttributeError
\* for an object without `content`) is answered by the except clause with
\* {"error": str(e)} and 500.
post(out, cls) ==
    IF out.kind = "raised"
    THEN Response(500, "-", <<>>, "run")
    ELSE IF out.value # <<>> /\ ~has_content(cls)
    THEN Response(500, "-", <<>>, "AttributeError")
    ELSE Response(200, status(out.value), out.value, "-")

PostRespond(cls) ==
    /\ agentPc = "exited"
    /\ post_response = NoResponse
    /\ post_response' = post(outcome, cls)
    /\ UNCHANGED <<agents, delete_response, cancelledAt, agentVars, ctxVars,
                   waVars, dsVars, llmVars, retryVars,
                   parseVars, clickVars, extractVars, toldVars,
                   controllerVars, wiredVars>>

\* delete for the agent id: 404 when self.agents does not hold it; otherwise
\* `await agent._cleanup()` (which closes the browser service and swallows
\* the exception of close()), `del self.agents[agent_id]`, "success".
\* Nothing of the agent's own state is written: steps, failures and the
\* position of run() stay as they are.
Delete ==
    /\ delete_response = NoResponse
    /\ invocations < InvCap - 1
    /\ IF AgentId \in agents
       THEN /\ cleanupCalls' = cleanupCalls + 1
            /\ closeCalls' = closeCalls + 1
            /\ agents' = agents \ {AgentId}
            /\ delete_response' = Response(200, "success", <<>>, "-")
            /\ cancelledAt' = invocations
       ELSE /\ delete_response' = Response(404, "-", <<>>, "not found")
            /\ UNCHANGED <<cleanupCalls, closeCalls, agents, cancelledAt>>
    /\ UNCHANGED <<post_response, steps, failures, last_result, agentPc,
                   ownOutcome, outcome, invocations, agentLast, ctxVars,
                   waVars, dsVars, llmVars, retryVars,
                   parseVars, clickVars, extractVars, toldVars,
                   controllerVars, wiredVars>>

NextView ==
    \/ NextAgent
    \/ \E cls \in ResultClasses : PostRespond(cls)
    \/ Delete

(***************************************************************************)
(* WorkAssistant: execute_task, execute_step, close (src/main.py).         *)
(***************************************************************************)
MaxTasks == 2         \* execute_task invocations
MaxPlanLen == 3       \* steps of a plan
MaxCollected == 2     \* entries held in collected_info
max_retries == 3      \* Step.max_retries

None == 0

Drivers == 1..MaxTasks

ActionType ==
    {"search", "click_result", "click_next", "extract_text", "back", "verify"}

\* stands for an object handed to execute_step that has no `action` attribute
NoAttr == "no_action_attribute"

Step(a) == [action |-> a, retry_count |-> 0, max_retries |-> max_retries]

\* the canonical plan of the prompt template: search, click, extract, back
CanonicalPlan ==
    <<Step("search"), Step("click_result"), Step("extract_text"), Step("back")>>

\* What the browser and the page do during one step: a driver call raises;
\* the looked-for result or text is found (for a search: a result page
\* passes the quality threshold and is collected).
Envs == [driverRaises : BOOLEAN, found : BOOLEAN]

StepResult(ok, add, raised) == [ok |-> ok, add |-> add, raised |-> raised]

\* _execute_search: a driver failure before the result loop is caught by the
\* outer except (False); otherwise the collected results are added and the
\* step succeeds
_execute_search(env) ==
    IF env.driverRaises THEN StepResult(FALSE, 0, FALSE)
    ELSE StepResult(TRUE, IF env.found THEN 1 ELSE 0, FALSE)

\* _execute_click_result: False when no result is found or the driver raises
_execute_click_result(env) ==
    IF env.driverRaises \/ ~env.found THEN StepResult(FALSE, 0, FALSE)
    ELSE StepResult(TRUE, 0, FALSE)

\* _execute_extract_text: one entry collected when some selector yields text
_execute_extract_text(env) ==
    IF env.driverRaises \/ ~env.found THEN StepResult(FALSE, 0, FALSE)
    ELSE StepResult(TRUE, 1, FALSE)

\* _execute_back: driver.back() inside try/except
_execute_back(env) ==
    IF env.driverRaises THEN StepResult(FALSE, 0, FALSE)
    ELSE StepResult(TRUE, 0, FALSE)

\* the body of the try block of execute_step
Dispatch(step, env) ==
    IF step.action = NoAttr THEN StepResult(FALSE, 0, TRUE)  \* AttributeError
    ELSE IF step.action = "search" THEN _execute_search(env)
    ELSE IF step.action = "click_result" THEN _execute_click_result(env)
    ELSE IF step.action = "extract_text" THEN _execute_extract_text(env)
    ELSE IF step.action = "back" THEN _execute_back(env)
    ELSE StepResult(FALSE, 0, FALSE)                          \* unknown action

\* execute_step without its except clause
execute_step_uncaught(step, env) == Dispatch(step, env)

\* execute_step: `except Exception: return False`
execute_step(step, env) ==
    LET d == Dispatch(step, env)
    IN IF d.raised THEN StepResult(FALSE, d.add, FALSE) ELSE d

\* close() that resets the fields only when driver.quit() returns
close_no_finally(drv, wt, quitRaises) ==
    IF drv # None
    THEN IF quitRaises
         THEN [driver |-> drv, wait |-> wt, quit |-> drv, raised |-> FALSE]
         ELSE [driver |-> None, wait |-> None, quit |-> drv, raised |-> FALSE]
    ELSE [driver |-> drv, wait |-> wt, quit |-> None, raised |-> FALSE]

\* close(): quit the driver if there is one; the exception of quit() is
\* logged; driver and wait are reset in the finally clause.
\* quit = the driver whose quit() was called, raised = close() raised
close(drv, wt, quitRaises) ==
    IF drv # None
    THEN [driver |-> None, wait |-> None, quit |-> drv, raised |-> FALSE]
    ELSE [driver |-> drv, wait |-> wt, quit |-> None, raised |-> FALSE]

CountQuit(q, d) == IF d = None THEN q ELSE [q EXCEPT ![d] = @ + 1]

\* arg: the action of the step of a direct execute_step call
WaOpArg(op, res, arg) == [op |-> op, result |-> res, arg |-> arg]

WaOp(op, res) == WaOpArg(op, res, "-")

InitWA ==
    /\ driver = None
    /\ wait = None
    /\ auto_close_browser \in BOOLEAN
    /\ collected_info = <<>>
    /\ waPc = "idle"
    /\ plan = <<>>
    /\ idx = 0
    /\ executed = <<>>
    /\ taskNo = 0
    /\ quitByClose = [d \in Drivers |-> 0]
    /\ quitBySetup = [d \in Drivers |-> 0]
    /\ result = <<>>
    /\ waLast = WaOp("__init__", "ok")

\* execute_task called
CallExecuteTask ==
    /\ waPc = "idle"
    /\ taskNo < MaxTasks
    /\ taskNo' = taskNo + 1
    /\ waPc' = "plan"
    /\ plan' = <<>>
    /\ idx' = 0
    /\ executed' = <<>>
    /\ waLast' = WaOp("execute_task", "started")
    /\ result' = <<>>
    /\ UNCHANGED <<driver, wait, auto_close_browser, collected_info,
                   quitByClose, quitBySetup, ctxVars, agentVars,
                   dsVars, llmVars, retryVars, viewVars,
                   parseVars, clickVars, extractVars, toldVars,
                   controllerVars, wiredVars>>

\* close() called on return only
ClosesOnExitReturnOnly(raised) == auto_close_browser /\ ~raised

\* whether the exit path of execute_task calls close(): on return
\* (`if self.auto_close_browser: self.close()`) and in the except clause
ClosesOnExit(raised) == auto_close_browser

\* execute_task leaves, returning its result or re-raising (res = "returned"
\* or "raised"); drv, wt are the fields at that moment
TaskExit(res, drv, wt, quitRaises) ==
    LET c == IF ClosesOnExit(res = "raised") THEN close(drv, wt, quitRaises)
             ELSE [driver |-> drv, wait |-> wt, quit |-> None, raised |-> FALSE]
    IN /\ driver' = c.driver
       /\ wait' = c.wait
       /\ quitByClose' = CountQuit(quitByClose, c.quit)
       /\ waPc' = "idle"
       /\ waLast' = WaOp("execute_task", res)

\* plan_task (retried by its decorator) returns or finally raises
PlanTask(ok, quitRaises) ==
    /\ waPc = "plan"
    /\ IF ok
       THEN /\ waPc' = "setup"
            /\ waLast' = WaOp("plan_task", "ok")
            /\ UNCHANGED <<driver, wait, quitByClose>>
       ELSE TaskExit("raised", driver, wait, quitRaises)
    /\ UNCHANGED <<result, auto_close_browser, collected_info, plan, idx, executed,
                   taskNo, quitBySetup, ctxVars, agentVars,
                   dsVars, llmVars, retryVars, viewVars,
                   parseVars, clickVars, extractVars, toldVars,
                   controllerVars, wiredVars>>

(***************************************************************************)
(* setup_driver.  how = "ok": driver and wait are created.                 *)
(* how = "before": an exception before webdriver.Chrome returns; self.     *)
(* driver still holds what it held, and is quit if it is not None.         *)
(* how = "after": an exception after self.driver was assigned, before      *)
(* (newWait = FALSE) or after (TRUE) self.wait was assigned; the new       *)
(* driver is quit.  In both failure cases the exception is re-raised and   *)
(* reaches the except clause of execute_task.                              *)
(***************************************************************************)
SetupDriver(how, newWait, quitRaises) ==
    /\ waPc = "setup"
    /\ LET new == taskNo
       IN CASE how = "ok" ->
                 /\ driver' = new
                 /\ wait' = new
                 /\ waPc' = "get"
                 /\ waLast' = WaOp("setup_driver", "ok")
                 /\ UNCHANGED <<quitByClose, quitBySetup>>
            [] how = "before" ->
                 /\ ~newWait
                 /\ quitBySetup' = CountQuit(quitBySetup, driver)
                 /\ TaskExit("raised", driver, wait, quitRaises)
            [] how = "after" ->
                 /\ quitBySetup' = CountQuit(quitBySetup, new)
                 /\ TaskExit("raised", new, IF newWait THEN new ELSE wait,
                             quitRaises)
    /\ UNCHANGED <<result, auto_close_browser, collected_info, plan, idx, executed,
                   taskNo, ctxVars, agentVars,
                   dsVars, llmVars, retryVars, viewVars,
                   parseVars, clickVars, extractVars, toldVars,
                   controllerVars, wiredVars>>

\* self.driver.get("https://www.baidu.com") in execute_task
DriverGet(ok, quitRaises) ==
    /\ waPc = "get"
    /\ IF ok
       THEN /\ waPc' = "parse"
            /\ waLast' = WaOp("driver_get", "ok")
            /\ UNCHANGED <<driver, wait, quitByClose>>
       ELSE TaskExit("raised", driver, wait, quitRaises)
    /\ UNCHANGED <<result, auto_close_browser, collected_info, plan, idx, executed,
                   taskNo, quitBySetup, ctxVars, agentVars,
                   dsVars, llmVars, retryVars, viewVars,
                   parseVars, clickVars, extractVars, toldVars,
                   controllerVars, wiredVars>>

\* parse_task returns the first n steps of the canonical plan, or raises
ParseTask(n, quitRaises) ==
    /\ waPc = "parse"
    /\ IF n > 0
       THEN /\ plan' = SubSeq(CanonicalPlan, 1, n)
            /\ idx' = 1
            /\ waPc' = "steps"
            /\ waLast' = WaOp("parse_task", "ok")
            /\ UNCHANGED <<driver, wait, quitByClose>>
       ELSE /\ TaskExit("raised", driver, wait, quitRaises)
            /\ UNCHANGED <<plan, idx>>
    /\ UNCHANGED <<result, auto_close_browser, collected_info, executed, taskNo,
                   quitBySetup, ctxVars, agentVars,
                   dsVars, llmVars, retryVars, viewVars,
                   parseVars, clickVars, extractVars, toldVars,
                   controllerVars, wiredVars>>

\* entries appended to collected_info by a step of task t
Collected(info, add, t) == IF add = 1 THEN Append(info, t) ELSE info

\* the driver is unusable when there is none: every driver call raises
EnvOf(env) == IF driver = None THEN [env EXCEPT !.driverRaises = TRUE] ELSE env

\* position of the loop `for step in steps` after a step: the next step, or
\* past the end on `break`
LoopNextAlways(i, ok, n) == i + 1

LoopNext(i, ok, n) == IF ok THEN i + 1 ELSE n + 1

\* one iteration of `for step in steps`: execute_step, break on failure
ExecStep(env, quitRaises) ==
    /\ waPc = "steps"
    /\ idx <= Len(plan)
    /\ LET r == execute_step(plan[idx], EnvOf(env))
       IN /\ Len(collected_info) + r.add <= MaxCollected
          /\ executed' = Append(executed,
                                [idx |-> idx, ok |-> r.ok, attempts |-> 1,
                                 retry_count |-> plan[idx].retry_count])
          /\ collected_info' = Collected(collected_info, r.add, taskNo)
          /\ IF r.raised
             THEN /\ TaskExit("raised", driver, wait, quitRaises)
                  /\ UNCHANGED idx
             ELSE /\ idx' = LoopNext(idx, r.ok, Len(plan))
                  /\ waPc' = IF idx' > Len(plan) THEN "format" ELSE "steps"
                  /\ waLast' = WaOp("execute_step",
                                    IF r.ok THEN "True" ELSE "False")
                  /\ UNCHANGED <<driver, wait, quitByClose>>
    /\ UNCHANGED <<result, auto_close_browser, plan, taskNo, quitBySetup,
                   ctxVars, agentVars,
                   dsVars, llmVars, retryVars, viewVars,
                   parseVars, clickVars, extractVars, toldVars,
                   controllerVars, wiredVars>>

\* the list execute_task hands to format_collected_info:
\* `self.format_collected_info(self.collected_info, task)`
format_input(info) == info

\* after the loop: format_collected_info when something was collected (it
\* may raise after its retries), then close according to the setting, return
FinishTask(formatOk, quitRaises) ==
    /\ waPc = "format"
    /\ IF collected_info # <<>> /\ ~formatOk
       THEN /\ TaskExit("raised", driver, wait, quitRaises)
            /\ UNCHANGED result
       ELSE /\ TaskExit("returned", driver, wait, quitRaises)
            /\ result' = format_input(collected_info)
    /\ UNCHANGED <<auto_close_browser, collected_info, plan, idx, executed,
                   taskNo, quitBySetup, ctxVars, agentVars,
                   dsVars, llmVars, retryVars, viewVars,
                   parseVars, clickVars, extractVars, toldVars,
                   controllerVars, wiredVars>>

\* close() called by the owner of the assistant (the finally clause of
\* main, the buttons of app.py), any number of times
Close(quitRaises) ==
    /\ waPc = "idle"
    /\ LET c == close(driver, wait, quitRaises)
       IN /\ driver' = c.driver
          /\ wait' = c.wait
          /\ quitByClose' = CountQuit(quitByClose, c.quit)
          /\ waLast' = WaOp("close", IF c.raised THEN "raised"
                                     ELSE IF c.quit = None THEN "no_driver"
                                     ELSE IF quitRaises THEN "quit_failed"
                                     ELSE "quit_ok")
    /\ result' = <<>>
    /\ UNCHANGED <<auto_close_browser, collected_info, waPc, plan, idx,
                   executed, taskNo, quitBySetup, ctxVars, agentVars,
                   dsVars, llmVars, retryVars, viewVars,
                   parseVars, clickVars, extractVars, toldVars,
                   controllerVars, wiredVars>>

\* the steps execute_step can be handed: any action type, or no Step at all
StepInputs == {Step(a) : a \in ActionType \cup {NoAttr}}

\* execute_step called directly on an arbitrary step
ExecuteStepDirect(step, env) ==
    /\ waPc = "idle"
    /\ LET r == execute_step(step, EnvOf(env))
       IN /\ Len(collected_info) + r.add <= MaxCollected
          /\ collected_info' = Collected(collected_info, r.add, taskNo)
          /\ waLast' = WaOpArg("execute_step_direct",
                               IF r.raised THEN "raised"
                               ELSE IF r.ok THEN "True" ELSE "False",
                               step.action)
    /\ result' = <<>>
    /\ UNCHANGED <<driver, wait, auto_close_browser, waPc, plan, idx, executed,
                   taskNo, quitByClose, quitBySetup, ctxVars, agentVars,
                   dsVars, llmVars, retryVars, viewVars,
                   parseVars, clickVars, extractVars, toldVars,
                   controllerVars, wiredVars>>

NextWA ==
    \/ CallExecuteTask
    \/ \E ok \in BOOLEAN, q \in BOOLEAN : PlanTask(ok, q)
    \/ \E how \in {"ok", "before", "after"}, w \in BOOLEAN, q \in BOOLEAN :
           SetupDriver(how, w, q)
    \/ \E ok \in BOOLEAN, q \in BOOLEAN : DriverGet(ok, q)
    \/ \E n \in 0..MaxPlanLen, q \in BOOLEAN : ParseTask(n, q)
    \/ \E env \in Envs, q \in BOOLEAN : ExecStep(env, q)
    \/ \E ok \in BOOLEAN, q \in BOOLEAN : FinishTask(ok, q)
    \/ \E q \in BOOLEAN : Close(q)
    \/ \E step \in StepInputs, env \in Envs : ExecuteStepDirect(step, env)

(***************************************************************************)
(* LLMClient and WorkAssistant.evaluate_content_quality (src/main.py).     *)
(* Scores are in tenths: 6 stands for 0.6, 10 for 1.0.                     *)
(***************************************************************************)
MaxScore == 12            \* score fields range over -MaxScore..MaxScore
llm_max_retries == 3      \* LLMClient.max_retries

\* what one session.post does: a 200 answer with a JSON body, a non-200
\* status (raise_for_status raises), a body that is no JSON (response.json()
\* raises), no answer at all
Transport == {"ok", "status", "body", "connection"}

\* the text of the model's answer, as far as the parser tells answers apart:
\*   json       one-line JSON object whose score is a number
\*   numstr     ... whose score is a string holding a number
\*   true       ... whose score is true
\*   no_score   ... without a score key
\*   word       ... whose score is a string holding no number
\*   null       ... whose score is null
\*   malformed  braces around text that is no JSON
\*   no_json    no {...} on one line
\*   no_choices the answer of the server has no "choices" entry
Shapes == {"json", "numstr", "true", "no_score", "word", "null", "malformed",
           "no_json", "no_choices"}

Reply(t, sh, sc) == [transport |-> t, shape |-> sh, score |-> sc]

Replies == [transport : Transport, shape : Shapes, score : -MaxScore..MaxScore]

NoException == "none"

Result(exc, v) == [raised |-> exc, value |-> v]

\* LLMClient.create: a single session.post.  Its except clause logs through
\* self.logger, an attribute LLMClient never sets, so what leaves create
\* after a failed request is the AttributeError of that lookup.
create(t) ==
    [posts |-> <<t>>,
     raised |-> IF t = "ok" THEN NoException ELSE "AttributeError"]

\* float(result.get('score', 0.0))
float_of_score(r) ==
    CASE r.shape = "json" -> Result(NoException, r.score)
      [] r.shape = "numstr" -> Result(NoException, r.score)
      [] r.shape = "true" -> Result(NoException, 10)
      [] r.shape = "no_score" -> Result(NoException, 0)
      [] r.shape = "word" -> Result("ValueError", 0)
      [] OTHER -> Result("TypeError", 0)

\* the statements inside the inner try: re.search(...).group(0), json.loads,
\* float
parse_score(r) ==
    IF r.shape = "no_json" THEN Result("AttributeError", 0)
    ELSE IF r.shape = "malformed" THEN Result("JSONDecodeError", 0)
    ELSE float_of_score(r)

\* except (AttributeError, json.JSONDecodeError): return 0.0
InnerCaught == {"AttributeError", "JSONDecodeError"}

\* the body of the outer try
score_body(r) ==
    LET c == create(r.transport)
    IN IF c.raised # NoException THEN Result(c.raised, 0)
       ELSE IF r.shape = "no_choices" THEN Result("KeyError", 0)
       ELSE LET p == parse_score(r)
            IN IF p.raised \in InnerCaught THEN Result(NoException, 0) ELSE p

\* evaluate_content_quality without its outer except clause
evaluate_content_quality_inner_only(r) == score_body(r)

\* evaluate_content_quality: `except Exception: return 0.0` around the body
evaluate_content_quality(r) ==
    LET b == score_body(r)
    IN IF b.raised # NoException THEN Result(NoException, 0) ELSE b

LlmOp(op, input, res) == [op |-> op, input |-> input, result |-> res]

InitLLM ==
    /\ posts = <<>>
    /\ llmLast = LlmOp("__init__", "-", Result(NoException, 0))

\* create called by a call site (plan_task, parse_task, verify_url, ...)
Create(t) ==
    /\ posts' = create(t).posts
    /\ llmLast' = LlmOp("create", t, Result(create(t).raised, 0))
    /\ UNCHANGED <<ctxVars, agentVars, waVars, dsVars, retryVars, viewVars,
                   parseVars, clickVars, extractVars, toldVars,
                   controllerVars, wiredVars>>

\* the requests _make_request sends when the k-th post behaves as ts[k]:
\* it stops at the first that succeeds
RECURSIVE Sent(_, _)
Sent(ts, k) ==
    IF k > Len(ts) THEN <<>>
    ELSE IF ts[k] = "ok" THEN <<ts[k]>>
    ELSE <<ts[k]>> \o Sent(ts, k + 1)

\* _make_request: up to max_retries posts; the last failure is re-raised
_make_request(ts) ==
    LET sent == Sent(ts, 1)
    IN [posts |-> sent,
        raised |-> IF sent[Len(sent)] = "ok" THEN NoException
                   ELSE sent[Len(sent)]]

MakeRequest(ts) ==
    /\ posts' = _make_request(ts).posts
    /\ llmLast' = LlmOp("_make_request", ts, Result(_make_request(ts).raised, 0))
    /\ UNCHANGED <<ctxVars, agentVars, waVars, dsVars, retryVars, viewVars,
                   parseVars, clickVars, extractVars, toldVars,
                   controllerVars, wiredVars>>

EvaluateContentQuality(r) ==
    /\ posts' = create(r.transport).posts
    /\ llmLast' = LlmOp("evaluate_content_quality", r,
                        evaluate_content_quality(r))
    /\ UNCHANGED <<ctxVars, agentVars, waVars, dsVars, retryVars, viewVars,
                   parseVars, clickVars, extractVars, toldVars,
                   controllerVars, wiredVars>>

NextLLM ==
    \/ \E t \in Transport : Create(t)
    \/ \E ts \in [1..llm_max_retries -> Transport] : MakeRequest(ts)
    \/ \E r \in Replies : EvaluateContentQuality(r)

(***************************************************************************)
(* retry_on_error(max_retries, delay) (src/main.py): the wrapper it puts   *)
(* around plan_task and format_collected_info.                             *)
(***************************************************************************)
MaxRetries == 3       \* max_retries arguments range over 0..MaxRetries
MaxDelay == 2         \* delay arguments range over 1..MaxDelay

\* exceptions the wrapped function raises; "ok" stands for a return
Errors == {"E1", "E2"}

Returned == "ok"

\* last_error before the first failure
NoError == "None"

RetryOutcome(kind, value) == [kind |-> kind, value |-> value]

InitRetry ==
    /\ retry_args \in [max_retries : 0..MaxRetries, delay : 1..MaxDelay]
    /\ attempts = <<>>
    /\ sleeps = <<>>
    /\ last_error = NoError
    /\ retryPc = "call"
    /\ retryOutcome = RetryOutcome("none", NoError)

\* `if attempt < max_retries - 1` with the test left out: sleep after every
\* failure
SleepsAfterAlways(attempt, n) == TRUE

\* `if attempt < max_retries - 1`: attempt counts from 0
SleepsAfter(attempt, n) == attempt < n - 1

\* one iteration of `for attempt in range(max_retries)`: the wrapped function
\* is invoked and returns or raises e
WrapperAttempt(out) ==
    /\ retryPc = "call"
    /\ Len(attempts) < retry_args.max_retries
    /\ attempts' = Append(attempts, out)
    /\ IF out = Returned
       THEN /\ retryOutcome' = RetryOutcome("return", out)
            /\ retryPc' = "done"
            /\ UNCHANGED last_error
       ELSE /\ last_error' = out
            /\ retryPc' = IF SleepsAfter(Len(attempts), retry_args.max_retries)
                          THEN "sleep" ELSE "call"
            /\ UNCHANGED retryOutcome
    /\ UNCHANGED <<retry_args, sleeps, ctxVars, agentVars, waVars, dsVars,
                   llmVars, viewVars, parseVars, clickVars, extractVars,
                   toldVars, controllerVars, wiredVars>>

\* time.sleep(delay)
WrapperSleep ==
    /\ retryPc = "sleep"
    /\ sleeps' = Append(sleeps, retry_args.delay)
    /\ retryPc' = "call"
    /\ UNCHANGED <<retry_args, attempts, last_error, retryOutcome, ctxVars,
                   agentVars, waVars, dsVars, llmVars, viewVars,
                   parseVars, clickVars, extractVars, toldVars,
                   controllerVars, wiredVars>>

\* `raise last_error` after the loop; raising None is a TypeError
WrapperRaise ==
    /\ retryPc = "call"
    /\ Len(attempts) >= retry_args.max_retries
    /\ retryOutcome' = RetryOutcome("raise", IF last_error = NoError
                                             THEN "TypeError" ELSE last_error)
    /\ retryPc' = "done"
    /\ UNCHANGED <<retry_args, attempts, sleeps, last_error, ctxVars,
                   agentVars, waVars, dsVars, llmVars, viewVars,
                   parseVars, clickVars, extractVars, toldVars,
                   controllerVars, wiredVars>>

NextRetry ==
    \/ \E out \in Errors \cup {Returned} : WrapperAttempt(out)
    \/ WrapperSleep
    \/ WrapperRaise

(***************************************************************************)
(* WorkAssistant.deep_search (src/main.py) and the tabs of the browser.    *)
(* One action per driver call of an activation; the activations of the     *)
(* recursion are the frames of `stack`.                                    *)
(***************************************************************************)
MaxDepth == 2         \* search_config.max_depth ranges over 0..MaxDepth
MaxResults == 2       \* search_config.max_results ranges over 1..MaxResults
MaxPages == 2         \* search_config.max_pages ranges over 1..MaxPages
MaxFaults == 2        \* driver calls that raise although their window exists

quality_threshold == 6    \* SearchConfig.quality_threshold = 0.6, in tenths

Urls == {"a", "b"}

\* a link the skip list drops ('twitter', 'facebook', 'ads', 'login', 'signup')
SkipUrl == "https://twitter.com/x"

StartUrl == "a"

\* the links a page may carry: a links to itself, or to b and itself behind a
\* skipped link; b links to nothing or back to a
LinkChoices(u) ==
    IF u = "a" THEN {<<"a">>, <<SkipUrl, "b", "a">>} ELSE {<<>>, <<"a">>}

\* score the model gives the content of a page: below or above the threshold
PageScores == {quality_threshold - 3, quality_threshold + 3}

Webs ==
    {[u \in Urls |-> [links |-> l[u], reply |-> Reply("ok", "json", s[u])]] :
        l \in {f \in [Urls -> UNION {LinkChoices(u) : u \in Urls}] :
                  \A u \in Urls : f[u] \in LinkChoices(u)},
        s \in [Urls -> PageScores]}

Tabs == {window_handles[k] : k \in 1..Len(window_handles)}

\* the focused tab is open
HasWindow == current_window_handle \in Tabs

Top == stack[Len(stack)]

SetTop(f) == [stack EXCEPT ![Len(stack)] = f]

\* the frame after a driver call of its activation
Hit(ok, f) == [f EXCEPT !.hit = @ \/ ~ok]

SetTopHit(ok, f) == SetTop(Hit(ok, f))

\* handle of the next tab the browser opens: never one it has used in a
\* window that is open or remembered
FreshHandle ==
    LET used == Tabs \cup {current_window_handle}
                     \cup {stack[k].original_window : k \in 1..Len(stack)}
    IN 1 + CHOOSE m \in used : \A h \in used : h <= m

\* a new activation deep_search(url, user_task, depth).  The fields from
\* tabsBefore on are no locals of the code: they remember the tabs, the
\* focus and the number of scored pages when the activation began, the tab
\* it opened, what each recursive call it made gave back, and whether a
\* driver call of its own raised although its window existed.
Frame(url, depth) ==
    [initial_url |-> url, depth |-> depth, pc |-> "enter",
     original_window |-> None, collected_data |-> <<>>, links |-> <<>>,
     i |-> 1, raised |-> FALSE,
     tabsBefore |-> Tabs, focusBefore |-> current_window_handle,
     scoredBefore |-> Len(scored), opened |-> None, log |-> <<>>,
     hit |-> FALSE]

DsEvent(op, f, value, failed) ==
    [op |-> op, frame |-> f, value |-> value, failed |-> failed]

DsStep(op) == DsEvent(op, None, <<>>, FALSE)

\* the locals of the loops of _execute_search before they start; k is the
\* position of `for result in results`.  The fields from deep_searches on
\* are no locals of the code: the calls of deep_search the step has made
\* (_execute_search holds none), the pages it has looked at, the urls it
\* has opened, and the tabs that were open when the step began.
NoSearch ==
    [pc |-> "idle", search_results_handle |-> None, all_results |-> <<>>,
     processed_urls |-> {}, results_count |-> 0, current_page |-> 1, k |-> 1,
     deep_searches |-> 0, pages |-> <<>>, opened |-> <<>>, tabs |-> {}]

SearchConfigs ==
    [deep_search : BOOLEAN, max_pages : 1..MaxPages,
     max_results : 1..MaxResults, max_depth : 0..MaxDepth,
     quality_threshold : {quality_threshold}]

InitDS ==
    /\ search_config \in SearchConfigs
    /\ web \in Webs
    /\ window_handles = <<1>>
    /\ current_window_handle = 1
    /\ stack = <<>>
    /\ search = NoSearch
    /\ scored = <<>>
    /\ faults = 0
    /\ dsLast = DsStep("__init__")

\* a driver call: it raises when its window is gone (pre is false) or, at
\* most MaxFaults times, for a reason of its own (ok is false)
Fault(ok, pre) ==
    /\ ok \/ (pre /\ faults < MaxFaults)
    /\ faults' = IF ok THEN faults ELSE faults + 1

\* position of `for sub_url in links[:max_results]` after a child call: the
\* next link, whether the child failed or not
NextSibling(i, failed, n) == i + 1

\* an entry of collected_data
Entry(url, score) == [url |-> url, quality_score |-> score]

\* the activation f leaves with `value`; failed: through its except clause.
\* The caller extends its collected_data and goes on with the next link.
Pop(f, value, failed) ==
    /\ dsLast' = DsEvent("return", f, value, failed)
    /\ IF Len(stack) = 1
       THEN stack' = <<>>
       ELSE LET p == stack[Len(stack) - 1]
                q == [p EXCEPT
                        !.collected_data = @ \o value,
                        !.log = Append(@, [failed |-> failed, value |-> value,
                                           hit |-> f.hit, depth |-> f.depth,
                                           opened |-> f.opened # None]),
                        !.i = NextSibling(@, failed, Len(p.links))]
            IN stack' = Append(SubSeq(stack, 1, Len(stack) - 2), q)

\* deep_search called from outside, at depth 0 or at the depth limit
CallDeepSearch(depth) ==
    /\ stack = <<>>
    /\ search.pc = "idle"
    /\ scored' = <<>>
    /\ LET f == [Frame(StartUrl, depth) EXCEPT !.scoredBefore = 0]
       IN /\ stack' = <<f>>
          /\ dsLast' = DsEvent("call", f, <<>>, FALSE)
    /\ UNCHANGED <<search, search_config, web, window_handles, current_window_handle,
                   faults, ctxVars, agentVars, waVars, llmVars, retryVars, viewVars,
                   parseVars, clickVars, extractVars, toldVars,
                   controllerVars, wiredVars>>

\* `if depth >= max_depth` with > for >=
TerminalStrict(depth, max_depth) == depth > max_depth

\* `if depth >= self.search_config.max_depth: return []`
Terminal(depth, max_depth) == depth >= max_depth

Enter ==
    /\ stack # <<>>
    /\ Top.pc = "enter"
    /\ IF Terminal(Top.depth, search_config.max_depth)
       THEN Pop(Top, <<>>, FALSE)
       ELSE /\ stack' = SetTop([Top EXCEPT !.pc = "handle"])
            /\ dsLast' = DsStep("enter")
    /\ UNCHANGED <<search, search_config, web, window_handles, current_window_handle,
                   scored, faults, ctxVars, agentVars, waVars, llmVars,
                   retryVars, viewVars, parseVars, clickVars, extractVars,
                   toldVars, controllerVars, wiredVars>>

\* original_window = self.driver.current_window_handle
CurrentWindowHandle(ok) ==
    /\ stack # <<>>
    /\ Top.pc = "handle"
    /\ Fault(ok, HasWindow)
    /\ stack' = SetTopHit(ok, IF ok /\ HasWindow
                       THEN [Top EXCEPT !.original_window = current_window_handle,
                                        !.pc = "open"]
                       ELSE [Top EXCEPT !.pc = "except"])
    /\ dsLast' = DsStep("current_window_handle")
    /\ UNCHANGED <<search, search_config, web, window_handles, current_window_handle,
                   scored, ctxVars, agentVars, waVars, llmVars, retryVars, viewVars,
                   parseVars, clickVars, extractVars, toldVars,
                   controllerVars, wiredVars>>

\* self.driver.execute_script('window.open(...)')
OpenTab(ok) ==
    /\ stack # <<>>
    /\ Top.pc = "open"
    /\ Fault(ok, HasWindow)
    /\ IF ok /\ HasWindow
       THEN /\ window_handles' = Append(window_handles, FreshHandle)
            /\ stack' = SetTopHit(ok, [Top EXCEPT !.opened = FreshHandle,
                                           !.pc = "switch"])
       ELSE /\ stack' = SetTopHit(ok, [Top EXCEPT !.pc = "except"])
            /\ UNCHANGED window_handles
    /\ dsLast' = DsStep("window.open")
    /\ UNCHANGED <<search, search_config, web, current_window_handle, scored,
                   ctxVars, agentVars, waVars, llmVars, retryVars, viewVars,
                   parseVars, clickVars, extractVars, toldVars,
                   controllerVars, wiredVars>>

\* self.driver.switch_to.window(self.driver.window_handles[-1])
SwitchToNewTab(ok) ==
    /\ stack # <<>>
    /\ Top.pc = "switch"
    /\ Fault(ok, window_handles # <<>>)
    /\ IF ok /\ window_handles # <<>>
       THEN /\ current_window_handle' = window_handles[Len(window_handles)]
            /\ stack' = SetTopHit(ok, [Top EXCEPT !.pc = "load"])
       ELSE /\ stack' = SetTopHit(ok, [Top EXCEPT !.pc = "except"])
            /\ UNCHANGED current_window_handle
    /\ dsLast' = DsStep("switch_to.window")
    /\ UNCHANGED <<search, search_config, web, window_handles, scored,
                   ctxVars, agentVars, waVars, llmVars, retryVars, viewVars,
                   parseVars, clickVars, extractVars, toldVars,
                   controllerVars, wiredVars>>

\* inside the inner try: WebDriverWait(...).until(readyState complete) and
\* find_element(body).text; an exception goes through the finally clause
LoadPage(ok) ==
    /\ stack # <<>>
    /\ Top.pc = "load"
    /\ Fault(ok, HasWindow)
    /\ stack' = SetTopHit(ok, IF ok /\ HasWindow
                       THEN [Top EXCEPT !.pc = "score"]
                       ELSE [Top EXCEPT !.pc = "close", !.raised = TRUE])
    /\ dsLast' = DsStep("load")
    /\ UNCHANGED <<search, search_config, web, window_handles, current_window_handle,
                   scored, ctxVars, agentVars, waVars, llmVars, retryVars, viewVars,
                   parseVars, clickVars, extractVars, toldVars,
                   controllerVars, wiredVars>>

\* every scored page is kept
KeepsAll(score, threshold) == TRUE

\* `if quality_score >= self.search_config.quality_threshold:`
Keeps(score, threshold) == score >= threshold

\* quality_score = self.evaluate_content_quality(content, user_task); the
\* page is appended to collected_data when it passes the threshold
ScorePage ==
    /\ stack # <<>>
    /\ Top.pc = "score"
    /\ LET r == evaluate_content_quality(web[Top.initial_url].reply)
       IN /\ scored' = Append(scored, Top.initial_url)
          /\ stack' = SetTop(
                IF r.raised # NoException
                THEN [Top EXCEPT !.pc = "close", !.raised = TRUE]
                ELSE IF Keeps(r.value, search_config.quality_threshold)
                THEN [Top EXCEPT
                        !.collected_data =
                            Append(@, Entry(Top.initial_url, r.value)),
                        !.pc = "links"]
                ELSE [Top EXCEPT !.pc = "links"])
    /\ dsLast' = DsStep("score")
    /\ UNCHANGED <<search, search_config, web, window_handles, current_window_handle,
                   faults, ctxVars, agentVars, waVars, llmVars, retryVars, viewVars,
                   parseVars, clickVars, extractVars, toldVars,
                   controllerVars, wiredVars>>

\* the links the script returns, without those of the skip list
RECURSIVE FilterLinks(_)
FilterLinks(ls) ==
    IF ls = <<>> THEN <<>>
    ELSE IF Head(ls) = SkipUrl THEN FilterLinks(Tail(ls))
    ELSE <<Head(ls)>> \o FilterLinks(Tail(ls))

\* `if depth < max_depth:` collect the links of the page; a failure of the
\* script is caught and leaves the list empty
GetLinks(ok) ==
    /\ stack # <<>>
    /\ Top.pc = "links"
    /\ IF Top.depth < search_config.max_depth
       THEN /\ Fault(ok, HasWindow)
            /\ stack' = SetTopHit(ok,
                  IF ok /\ HasWindow
                  THEN [Top EXCEPT
                          !.links = FilterLinks(web[Top.initial_url].links),
                          !.pc = "children"]
                  ELSE [Top EXCEPT !.pc = "children"])
       ELSE /\ ok
            /\ stack' = SetTop([Top EXCEPT !.pc = "close"])
            /\ UNCHANGED faults
    /\ dsLast' = DsStep("links")
    /\ UNCHANGED <<search, search_config, web, window_handles, current_window_handle,
                   scored, ctxVars, agentVars, waVars, llmVars, retryVars, viewVars,
                   parseVars, clickVars, extractVars, toldVars,
                   controllerVars, wiredVars>>

\* links[:max_results]
Candidates(ls, max_results) ==
    SubSeq(ls, 1, IF Len(ls) < max_results THEN Len(ls) ELSE max_results)

\* `for sub_url in links[:max_results]: self.deep_search(sub_url, ...,
\* depth + 1)`: the next recursive call, or the end of the loop
Children ==
    /\ stack # <<>>
    /\ Top.pc = "children"
    /\ LET cs == Candidates(Top.links, search_config.max_results)
       IN IF Top.i <= Len(cs)
          THEN /\ stack' = Append(stack, Frame(cs[Top.i], Top.depth + 1))
               /\ dsLast' = DsEvent("call", Frame(cs[Top.i], Top.depth + 1),
                                    <<>>, FALSE)
          ELSE /\ stack' = SetTop([Top EXCEPT !.pc = "close"])
               /\ dsLast' = DsStep("end_of_links")
    /\ UNCHANGED <<search, search_config, web, window_handles, current_window_handle,
                   scored, faults, ctxVars, agentVars, waVars, llmVars,
                   retryVars, viewVars, parseVars, clickVars, extractVars,
                   toldVars, controllerVars, wiredVars>>

RECURSIVE Without(_, _)
Without(hs, h) ==
    IF hs = <<>> THEN <<>>
    ELSE IF Head(hs) = h THEN Without(Tail(hs), h)
    ELSE <<Head(hs)>> \o Without(Tail(hs), h)

\* finally: self.driver.close() closes the focused tab; when it raises the
\* rest of the finally clause is skipped
CloseTab(ok) ==
    /\ stack # <<>>
    /\ Top.pc = "close"
    /\ Fault(ok, HasWindow)
    /\ IF ok /\ HasWindow
       THEN /\ window_handles' = Without(window_handles, current_window_handle)
            /\ stack' = SetTopHit(ok, [Top EXCEPT !.pc = "restore"])
       ELSE /\ stack' = SetTopHit(ok, [Top EXCEPT !.pc = "except"])
            /\ UNCHANGED window_handles
    /\ dsLast' = DsStep("close")
    /\ UNCHANGED <<search, search_config, web, current_window_handle, scored,
                   ctxVars, agentVars, waVars, llmVars, retryVars, viewVars,
                   parseVars, clickVars, extractVars, toldVars,
                   controllerVars, wiredVars>>

\* finally: self.driver.switch_to.window(original_window); then the
\* exception of the try block, if any, goes on to the outer except clause
RestoreWindow(ok) ==
    /\ stack # <<>>
    /\ Top.pc = "restore"
    /\ Fault(ok, Top.original_window \in Tabs)
    /\ IF ok /\ Top.original_window \in Tabs
       THEN /\ current_window_handle' = Top.original_window
            /\ stack' = SetTopHit(ok, [Top EXCEPT
                                  !.pc = IF Top.raised THEN "except"
                                         ELSE "return"])
       ELSE /\ stack' = SetTopHit(ok, [Top EXCEPT !.pc = "except"])
            /\ UNCHANGED current_window_handle
    /\ dsLast' = DsStep("restore")
    /\ UNCHANGED <<search, search_config, web, window_handles, scored,
                   ctxVars, agentVars, waVars, llmVars, retryVars, viewVars,
                   parseVars, clickVars, extractVars, toldVars,
                   controllerVars, wiredVars>>

\* return collected_data
Return ==
    /\ stack # <<>>
    /\ Top.pc = "return"
    /\ Pop(Top, Top.collected_data, FALSE)
    /\ UNCHANGED <<search, search_config, web, window_handles, current_window_handle,
                   scored, faults, ctxVars, agentVars, waVars, llmVars,
                   retryVars, viewVars, parseVars, clickVars, extractVars,
                   toldVars, controllerVars, wiredVars>>

\* except Exception: try switch_to.window(original_window), whatever that
\* raises is dropped (original_window is unbound when current_window_handle
\* raised); return []
Except(ok) ==
    /\ stack # <<>>
    /\ Top.pc = "except"
    /\ Fault(ok, Top.original_window \in Tabs)
    /\ current_window_handle' =
           IF ok /\ Top.original_window \in Tabs
           THEN Top.original_window ELSE current_window_handle
    /\ Pop(Hit(ok, Top), <<>>, TRUE)
    /\ UNCHANGED <<search, search_config, web, window_handles, scored,
                   ctxVars, agentVars, waVars, llmVars, retryVars, viewVars,
                   parseVars, clickVars, extractVars, toldVars,
                   controllerVars, wiredVars>>

(***************************************************************************)
(* The result loop of WorkAssistant._execute_search (src/main.py): every   *)
(* result of the search page is opened in a tab of its own, scored, and    *)
(* kept when it passes the threshold; the page loop around it goes to the  *)
(* next page of results through the button page-next.                      *)
(***************************************************************************)
\* urls of the results of the pages the search engine has for the query
SearchPages == << <<"a", "a">>, <<"b", "a">>, <<"a", "b">> >>

\* what happens at the end of a page: the button is clicked and the next
\* page is read; there is no usable button (or no further page is wanted);
\* the button is clicked and reading the next page raises
PageTurns == {"click", "stay", "page"}

\* the driver call of one loop iteration that raises, if any
SearchFaults == {"none", "open", "switch", "load", "close", "back"}

Browser(hs, f) == [handles |-> hs, focus |-> f]

Open(b) == b.focus \in {b.handles[n] : n \in 1..Len(b.handles)}

\* the try block for one result, its finally clause and its except clause:
\* the browser afterwards, whether the page was scored and kept, and
\* whether the except clause itself raised, which ends the loop
process_result(b0, handle, url, fault) ==
    LET openOk == fault # "open" /\ Open(b0)
        b1 == IF openOk THEN Browser(Append(b0.handles, FreshHandle), b0.focus)
              ELSE b0
        switchOk == openOk /\ fault # "switch"
        b2 == IF switchOk THEN Browser(b1.handles, b1.handles[Len(b1.handles)])
              ELSE b1
        \* inner try
        loadOk == switchOk /\ fault # "load"
        r == evaluate_content_quality(web[url].reply)
        kept == loadOk /\ r.raised = NoException
                       /\ Keeps(r.value, search_config.quality_threshold)
        \* finally
        closeOk == switchOk /\ fault # "close"
        b3 == IF closeOk THEN Browser(Without(b2.handles, b2.focus), b2.focus)
              ELSE b2
        backOk == closeOk /\ fault # "back" /\ Open(Browser(b3.handles, handle))
        b4 == IF backOk THEN Browser(b3.handles, handle) ELSE b3
        raised == ~(loadOk /\ r.raised = NoException /\ backOk)
        \* except: if current_window_handle != search_results_handle:
        \*             close(); switch_to.window(search_results_handle)
        away == raised /\ Open(b4) /\ b4.focus # handle
        b5 == IF away THEN Browser(Without(b4.handles, b4.focus), b4.focus)
              ELSE b4
        b6 == IF away /\ Open(Browser(b5.handles, handle))
              THEN Browser(b5.handles, handle) ELSE b5
    IN [browser |-> b6,
        opened |-> openOk,
        scored |-> loadOk,
        entry |-> IF kept THEN <<Entry(url, r.value)>> ELSE <<>>,
        break |-> raised /\ ~Open(b6)]

\* all_results.sort(key=quality_score, reverse=True): stable, best first
RECURSIVE InsertByScore(_, _)
InsertByScore(sorted, e) ==
    IF sorted = <<>> THEN <<e>>
    ELSE IF Head(sorted).quality_score >= e.quality_score
    THEN <<Head(sorted)>> \o InsertByScore(Tail(sorted), e)
    ELSE <<e>> \o sorted

RECURSIVE SortByScore(_)
SortByScore(es) ==
    IF es = <<>> THEN <<>>
    ELSE InsertByScore(SortByScore(SubSeq(es, 1, Len(es) - 1)), es[Len(es)])

\* the statements of _execute_search before the result loop: the search is
\* typed and submitted (a failure there ends _execute_search with False),
\* search_results_handle = driver.current_window_handle, and the head of
\* the page loop (a failure there ends the loop with nothing collected)
StartSearch(how) ==
    /\ stack = <<>>
    /\ search.pc = "idle"
    /\ Fault(how = "ok", HasWindow)
    /\ scored' = <<>>
    /\ IF how = "ok" /\ HasWindow
       THEN /\ search' = [NoSearch EXCEPT
                            !.pc = "results",
                            !.search_results_handle = current_window_handle,
                            !.pages = <<1>>,
                            !.tabs = Tabs]
            /\ dsLast' = DsStep("search")
       ELSE /\ search' = NoSearch
            /\ dsLast' = DsEvent("search_return", None, <<>>, how # "page")
    /\ UNCHANGED <<search_config, web, window_handles, current_window_handle,
                   stack, ctxVars, agentVars, waVars, llmVars, retryVars, viewVars,
                   parseVars, clickVars, extractVars, toldVars,
                   controllerVars, wiredVars>>

\* one iteration of `for result in results`: a url seen before is skipped
ProcessResult(fault) ==
    /\ search.pc = "results"
    /\ search.k <= Len(SearchPages[search.current_page])
    /\ search.results_count < search_config.max_results
    /\ fault # "none" => faults < MaxFaults
    /\ faults' = IF fault = "none" THEN faults ELSE faults + 1
    /\ LET url == SearchPages[search.current_page][search.k]
           p == process_result(Browser(window_handles, current_window_handle),
                               search.search_results_handle, url, fault)
       IN IF url \in search.processed_urls
          THEN /\ fault = "none"
               /\ search' = [search EXCEPT !.k = @ + 1]
               /\ UNCHANGED <<window_handles, current_window_handle, scored>>
          ELSE /\ search' = [search EXCEPT
                               !.k = @ + 1,
                               !.processed_urls = @ \cup {url},
                               !.results_count = @ + 1,
                               !.all_results = @ \o p.entry,
                               !.opened = IF p.opened THEN Append(@, url) ELSE @,
                               !.pc = IF p.break THEN "finish" ELSE "results"]
               /\ window_handles' = p.browser.handles
               /\ current_window_handle' = p.browser.focus
               /\ scored' = IF p.scored THEN Append(scored, url) ELSE scored
    /\ dsLast' = DsStep("result")
    /\ UNCHANGED <<search_config, web, stack, ctxVars, agentVars, waVars,
                   llmVars, retryVars, viewVars,
                   parseVars, clickVars, extractVars, toldVars,
                   controllerVars, wiredVars>>

\* the same test without the count of the results
WantsNextPageAlways(current_page, results_count, config) ==
    current_page < config.max_pages

\* `if current_page < max_pages and results_count < max_results`
WantsNextPage(current_page, results_count, config) ==
    current_page < config.max_pages /\ results_count < config.max_results

\* the end of `for result in results` and the rest of the body of the page
\* loop: the button page-next is clicked when another page is wanted and
\* the button is there, and the loop ends otherwise (break).  After the click
\* the next iteration begins: the loop test holds, the focus is put on the
\* page of the results and the results are read; a failure there ends the
\* loop as well.
NextPage(how) ==
    /\ search.pc = "results"
    /\ \/ search.k > Len(SearchPages[search.current_page])
       \/ search.results_count >= search_config.max_results
    /\ IF /\ WantsNextPage(search.current_page, search.results_count,
                           search_config)
          /\ how # "stay"
       THEN /\ search.current_page < Len(SearchPages)
            /\ Fault(how = "click", HasWindow)
            /\ LET headOk == /\ how = "click" /\ HasWindow
                             /\ search.search_results_handle \in Tabs
               IN /\ search' = [search EXCEPT
                                  !.current_page = @ + 1,
                                  !.k = 1,
                                  !.pages = Append(@, search.current_page + 1),
                                  !.pc = IF headOk THEN "results" ELSE "finish"]
                  /\ current_window_handle' =
                         IF headOk THEN search.search_results_handle
                         ELSE current_window_handle
       ELSE /\ how = "stay"
            /\ search' = [search EXCEPT !.pc = "finish"]
            /\ UNCHANGED <<current_window_handle, faults>>
    /\ dsLast' = DsStep("page")
    /\ UNCHANGED <<search_config, web, window_handles, stack, scored, ctxVars,
                   agentVars, waVars, llmVars, retryVars, viewVars,
                   parseVars, clickVars, extractVars, toldVars,
                   controllerVars, wiredVars>>

\* after the loops: all_results is sorted and self.collected_info is
\* extended with it (the value of the event); _execute_search returns True
FinishSearch ==
    /\ search.pc = "finish"
    /\ dsLast' = DsEvent("search_return", None,
                         SortByScore(search.all_results), FALSE)
    /\ search' = NoSearch
    /\ UNCHANGED <<search_config, web, window_handles, current_window_handle,
                   stack, scored, faults, ctxVars, agentVars, waVars, llmVars,
                   retryVars, viewVars, parseVars, clickVars, extractVars,
                   toldVars, controllerVars, wiredVars>>

NextSearch ==
    \/ \E how \in {"ok", "setup", "page"} : StartSearch(how)
    \/ \E fault \in SearchFaults : ProcessResult(fault)
    \/ \E how \in PageTurns : NextPage(how)
    \/ FinishSearch

NextDS ==
    \/ \E depth \in {0, search_config.max_depth} : CallDeepSearch(depth)
    \/ Enter
    \/ \E ok \in BOOLEAN : CurrentWindowHandle(ok)
    \/ \E ok \in BOOLEAN : OpenTab(ok)
    \/ \E ok \in BOOLEAN : SwitchToNewTab(ok)
    \/ \E ok \in BOOLEAN : LoadPage(ok)
    \/ ScorePage
    \/ \E ok \in BOOLEAN : GetLinks(ok)
    \/ Children
    \/ \E ok \in BOOLEAN : CloseTab(ok)
    \/ \E ok \in BOOLEAN : RestoreWindow(ok)
    \/ Return
    \/ \E ok \in BOOLEAN : Except(ok)
    \/ NextSearch

(***************************************************************************)
(* TaskParser.parse_llm_response (src/main.py).                            *)
(* A text is a sequence of tokens: the characters the regular expressions  *)
(* of the cleaning look at are tokens of their own,                        *)
(*     {  }  [  ]  ,  :  "  //  space  newline  fence                      *)
(* and every other token is a run of word characters (\w+).                *)
(***************************************************************************)
MaxPlanSteps == 2

Quote == "\""
Fence == "fence"      \* three backticks
Slashes == "//"
Space == " "
Newline == "\n"

Punctuation ==
    {"{", "}", "[", "]", ",", ":", Quote, Slashes, Space, Newline, Fence}

IsWord(t) == t \notin Punctuation

\* the text of a JSON string with the given content
Str(content) == <<Quote>> \o content \o <<Quote>>

\* "key":value
Member(key, value) == Str(<<key>>) \o <<":">> \o value

\* {m1,m2,...} and [v1,v2,...]
RECURSIVE Joined(_)
Joined(parts) ==
    IF parts = <<>> THEN <<>>
    ELSE IF Len(parts) = 1 THEN parts[1]
    ELSE parts[1] \o <<",">> \o Joined(Tail(parts))

Obj(members) == <<"{">> \o Joined(members) \o <<"}">>

Arr(values) == <<"[">> \o Joined(values) \o <<"]">>

(***************************************************************************)
(* The steps a reply can hold.  `valid` tells whether the action is one of *)
(* search, click_result, extract_text, back and its typed params can be    *)
(* constructed (SearchParams needs keywords, ExtractParams needs           *)
(* selector).                                                              *)
(***************************************************************************)
StepText(action, params) ==
    Obj(<<Member("action", Str(<<action>>)), Member("params", Obj(params))>>)

StepKinds ==
    { [name |-> "search", action |-> "search", valid |-> TRUE,
       text |-> StepText("search", <<Member("keywords", Str(<<"kw">>))>>)],
      [name |-> "search_url", action |-> "search", valid |-> TRUE,
       text |-> StepText("search",
                    <<Member("keywords", Str(<<"https", ":", Slashes, "x">>))>>)],
      [name |-> "search_two_words", action |-> "search", valid |-> TRUE,
       text |-> StepText("search",
                    <<Member("keywords", Str(<<"ai", Space, "news">>))>>)],
      [name |-> "search_empty_keywords", action |-> "search", valid |-> TRUE,
       text |-> StepText("search", <<Member("keywords", Str(<<>>))>>)],
      [name |-> "search_no_keywords", action |-> "search", valid |-> FALSE,
       text |-> StepText("search", <<>>)],
      [name |-> "click_result", action |-> "click_result", valid |-> TRUE,
       text |-> StepText("click_result", <<Member("index", Str(<<"0">>))>>)],
      [name |-> "extract_text", action |-> "extract_text", valid |-> TRUE,
       text |-> StepText("extract_text",
                    <<Member("selector", Str(<<"article">>)),
                      Member("attribute", Str(<<"text">>))>>)],
      [name |-> "extract_no_selector", action |-> "extract_text", valid |-> FALSE,
       text |-> StepText("extract_text", <<Member("attribute", Str(<<"text">>))>>)],
      [name |-> "back", action |-> "back", valid |-> TRUE,
       text |-> StepText("back", <<>>)],
      [name |-> "click", action |-> "click", valid |-> FALSE,
       text |-> StepText("click", <<>>)],
      [name |-> "verify", action |-> "verify", valid |-> FALSE,
       text |-> StepText("verify", <<>>)],
      [name |-> "not_an_object", action |-> "-", valid |-> FALSE,
       text |-> Str(<<"x">>)] }

RECURSIVE SeqsUpTo(_, _)
SeqsUpTo(S, n) ==
    IF n = 0 THEN {<<>>}
    ELSE LET shorter == SeqsUpTo(S, n - 1)
         IN shorter \cup {Append(s, x) : s \in shorter, x \in S}

Plans == SeqsUpTo(StepKinds, MaxPlanSteps)

RECURSIVE Texts(_)
Texts(kinds) ==
    IF kinds = <<>> THEN <<>> ELSE <<Head(kinds).text>> \o Texts(Tail(kinds))

\* the clean reply {"steps":[...]}
CleanReply(kinds) == Obj(<<Member("steps", Arr(Texts(kinds)))>>)

\* what surrounds the object in a reply: nothing, a code fence, prose, a
\* stray comma; prose that mentions a link or uses a brace
Before ==
    { <<>>,
      <<Fence, "json", Newline>>,
      <<Fence, "json", Space>>,
      <<"Here", Space, "is", Space, "the", Space, "plan", ":", Newline>>,
      <<"See", Space, "https", ":", Slashes, "x", Space, "for", Space,
        "details", ":", Newline>>,
      <<"Plan", Space, "{", "v1", "}", ":", Space>>,
      <<",">> }

After ==
    { <<>>,
      <<Newline, Fence>>,
      <<Newline, "Done">>,
      <<",">> }

\* what a cut-off or malformed reply lacks
Damages ==
    {"none", "no_closing", "no_brace", "no_bracket", "after_comma", "no_steps_key"}

Damaged(kinds, damage) ==
    LET body == Str(<<"steps">>) \o <<":", "[">> \o Joined(Texts(kinds))
    IN IF damage = "no_closing" THEN <<"{">> \o body
       ELSE IF damage = "no_brace" THEN <<"{">> \o body \o <<"]">>
       ELSE IF damage = "no_bracket" THEN <<"{">> \o body \o <<"}">>
       ELSE IF damage = "after_comma" THEN <<"{">> \o body \o <<",">>
       ELSE IF damage = "no_steps_key"
       THEN Obj(<<Member("plan", Arr(Texts(kinds)))>>)
       ELSE CleanReply(kinds)

(***************************************************************************)
(* clean_response: initial_clean, extract_json, fix_json_structure,        *)
(* fix_steps_array.                                                        *)
(***************************************************************************)
\* position of the first token t in text, 0 when there is none
First(text, t) ==
    IF \E i \in 1..Len(text) : text[i] = t
    THEN CHOOSE i \in 1..Len(text) :
             text[i] = t /\ \A j \in 1..(i - 1) : text[j] # t
    ELSE 0

Drop(text, n) == SubSeq(text, n + 1, Len(text))

\* parts[lo] \o ... \o parts[hi]
RECURSIVE Concat(_, _, _)
Concat(parts, lo, hi) ==
    IF lo > hi THEN <<>>
    ELSE IF lo = hi THEN parts[lo]
    ELSE LET mid == (lo + hi) \div 2
         IN Concat(parts, lo, mid) \o Concat(parts, mid + 1, hi)

\* the token at position i is a fence, or lies on the rest of the line of a
\* fence: no newline between the fence and i, and a newline at i or later
Fenced(text, i) ==
    \E f \in 1..i :
        /\ text[f] = Fence
        /\ \/ f = i
           \/ /\ \A k \in (f + 1)..(i - 1) : text[k] # Newline
              /\ \E k \in i..Len(text) : text[k] = Newline

\* the first re.sub of initial_clean: a fence goes together with the rest
\* of its line when a newline follows, alone otherwise
RemoveFences(text) ==
    Concat([i \in 1..Len(text) |->
               IF Fenced(text, i) THEN <<>> ELSE <<text[i]>>],
           1, Len(text))

\* re.sub(r'\s+', '', text)
RemoveSpaces(text) == SelectSeq(text, LAMBDA t : t \notin {Space, Newline})

\* re.sub(r'//.*?(?=\n|\r|$)|/\*.*?\*/', '', text): from // to the end of
\* the line
RECURSIVE RemoveComments(_)
RemoveComments(text) ==
    LET c == First(text, Slashes)
    IN IF c = 0 THEN text
       ELSE LET rest == Drop(text, c)
                nl   == First(rest, Newline)
            IN IF nl = 0 THEN SubSeq(text, 1, c - 1)
               ELSE SubSeq(text, 1, c - 1) \o <<Newline>>
                        \o RemoveComments(Drop(rest, nl))

initial_clean(text) == RemoveComments(RemoveSpaces(RemoveFences(text)))

\* `"steps":[` at position p
StepsKey == <<Quote, "steps", Quote, ":", "[">>

KeyAt(text, p) ==
    p + 4 <= Len(text) /\ SubSeq(text, p, p + 4) = StepsKey

\* positions r > k of a `]` that `}` follows
ClosingsAfter(text, k) ==
    {r \in (k + 1)..(Len(text) - 1) : text[r] = "]" /\ text[r + 1] = "}"}

KeysAfter(text, i) ==
    {p \in (i + 1)..Len(text) : KeyAt(text, p) /\ ClosingsAfter(text, p + 4) # {}}

SetMin(S) == CHOOSE x \in S : \A y \in S : x <= y
SetMax(S) == CHOOSE x \in S : \A y \in S : x >= y

\* re.search(r'\{.*"steps"\s*:\s*\[.*?\]\s*\}', text, re.DOTALL): leftmost
\* `{`, the greedy .* up to the last "steps":[ that a `]}` follows, the lazy
\* .*? up to the first `]}` after it; the text itself when nothing matches
extract_json(text) ==
    LET starts == {i \in 1..Len(text) : text[i] = "{" /\ KeysAfter(text, i) # {}}
    IN IF starts = {} THEN text
       ELSE LET i == SetMin(starts)
                p == SetMax(KeysAfter(text, i))
                r == SetMin(ClosingsAfter(text, p + 4))
            IN SubSeq(text, i, r + 1)

\* number of word tokens text starts with
RECURSIVE WordRun(_)
WordRun(text) ==
    IF text # <<>> /\ IsWord(Head(text)) THEN 1 + WordRun(Tail(text)) ELSE 0

\* re.sub(r'([{,])(\w+):', r'\1"\2":', text): a key starts at a `{` or `,`
\* that a run of word tokens and a `:` follow.  Such matches cannot overlap
\* (none of `{`, `,`, `:` is a word), so each one is replaced where it
\* stands.
KeyStart(text, i) ==
    /\ text[i] \in {"{", ","}
    /\ LET n == WordRun(Drop(text, i))
       IN n >= 1 /\ Len(text) > i + n /\ text[i + n + 1] = ":"

\* the `:` that ends a key
KeyEnd(text, j) ==
    /\ text[j] = ":"
    /\ \E i \in 1..(j - 2) :
           /\ \A k \in (i + 1)..(j - 1) : IsWord(text[k])
           /\ KeyStart(text, i)

QuoteKeys(text) ==
    Concat([i \in 1..Len(text) |->
               (IF KeyEnd(text, i) THEN <<Quote>> ELSE <<>>)
                   \o <<text[i]>>
                   \o (IF KeyStart(text, i) THEN <<Quote>> ELSE <<>>)],
           1, Len(text))

\* the replacements of True, False and the typographic quotes leave a text
\* over these tokens as it is
fix_json_structure(text) == QuoteKeys(text)

Count(text, t) == Len(SelectSeq(text, LAMBDA x : x = t))

RECURSIVE Repeat(_, _)
Repeat(t, n) == IF n <= 0 THEN <<>> ELSE <<t>> \o Repeat(t, n - 1)

\* fix_steps_array: with '"steps":[' in the text, the missing `]` are
\* appended, then a `}` unless the text ends with one
fix_steps_array(text) ==
    IF \E p \in 1..Len(text) : KeyAt(text, p)
    THEN LET left == Count(text, "[")
             right == Count(text, "]")
             closed == IF left > right
                       THEN text \o Repeat("]", left - right) ELSE text
         IN IF closed[Len(closed)] # "}" THEN Append(closed, "}") ELSE closed
    ELSE text

(***************************************************************************)
(* json.loads on a text of tokens.  A value is a string (its content, a    *)
(* sequence of tokens), an array (items) or an object (keys and items, in  *)
(* the order of the text).  A word outside a string is no JSON value: the  *)
(* words of these texts are no numbers and none of true, false, null.      *)
(***************************************************************************)
JsonString(content) ==
    [k |-> "str", s |-> content, keys |-> <<>>, items |-> <<>>]

JsonArray(items) == [k |-> "arr", s |-> <<>>, keys |-> <<>>, items |-> items]

JsonObject(keys, items) ==
    [k |-> "obj", s |-> <<>>, keys |-> keys, items |-> items]

Parsed(v, rest) == [ok |-> TRUE, v |-> v, rest |-> rest]

JSONDecodeError == [ok |-> FALSE, v |-> JsonString(<<>>), rest |-> <<>>]

RECURSIVE ParseValue(_), ParseItems(_, _), ParseMembers(_, _, _)

ParseValue(text) ==
    IF text = <<>> THEN JSONDecodeError
    ELSE IF Head(text) = Quote
    THEN LET q == First(Tail(text), Quote)
         IN IF q = 0 THEN JSONDecodeError
            ELSE Parsed(JsonString(SubSeq(Tail(text), 1, q - 1)),
                        Drop(Tail(text), q))
    ELSE IF Head(text) = "["
    THEN IF Tail(text) # <<>> /\ Head(Tail(text)) = "]"
         THEN Parsed(JsonArray(<<>>), Tail(Tail(text)))
         ELSE ParseItems(Tail(text), <<>>)
    ELSE IF Head(text) = "{"
    THEN IF Tail(text) # <<>> /\ Head(Tail(text)) = "}"
         THEN Parsed(JsonObject(<<>>, <<>>), Tail(Tail(text)))
         ELSE ParseMembers(Tail(text), <<>>, <<>>)
    ELSE JSONDecodeError

ParseItems(text, items) ==
    LET v == ParseValue(text)
    IN IF ~v.ok \/ v.rest = <<>> THEN JSONDecodeError
       ELSE IF Head(v.rest) = "]"
       THEN Parsed(JsonArray(Append(items, v.v)), Tail(v.rest))
       ELSE IF Head(v.rest) = ","
       THEN ParseItems(Tail(v.rest), Append(items, v.v))
       ELSE JSONDecodeError

ParseMembers(text, keys, items) ==
    LET key == ParseValue(text)
    IN IF ~key.ok \/ key.v.k # "str" \/ key.rest = <<>> \/ Head(key.rest) # ":"
       THEN JSONDecodeError
       ELSE LET v == ParseValue(Tail(key.rest))
            IN IF ~v.ok \/ v.rest = <<>> THEN JSONDecodeError
               ELSE IF Head(v.rest) = "}"
               THEN Parsed(JsonObject(Append(keys, key.v.s), Append(items, v.v)),
                           Tail(v.rest))
               ELSE IF Head(v.rest) = ","
               THEN ParseMembers(Tail(v.rest), Append(keys, key.v.s),
                                 Append(items, v.v))
               ELSE JSONDecodeError

\* json.loads: the whole text is one value
json_loads(text) ==
    LET r == ParseValue(text)
    IN IF r.ok /\ r.rest = <<>> THEN r ELSE JSONDecodeError

\* `key in d` and d[key] of a dict: the last member with that key counts
Has(obj, key) == \E i \in 1..Len(obj.keys) : obj.keys[i] = <<key>>

Get(obj, key) ==
    obj.items[SetMax({i \in 1..Len(obj.keys) : obj.keys[i] = <<key>>})]

KeySet(obj) == {obj.keys[i] : i \in 1..Len(obj.keys)}

\* the loop of validate_json: a step that is a dict with an action and
\* without params gets "params": {}
WithParams(step) ==
    IF step.k = "obj" /\ Has(step, "action") /\ ~Has(step, "params")
    THEN JsonObject(Append(step.keys, <<"params">>),
                    Append(step.items, JsonObject(<<>>, <<>>)))
    ELSE step

NoData == [ok |-> FALSE, steps |-> <<>>]

\* validate_json, and json.loads of what it dumps: the steps of the data,
\* or the failure (JSONDecodeError; AttributeError for data that is no
\* dict; ValueError for steps that are no list)
validate_json(text) ==
    LET d == json_loads(text)
    IN IF ~d.ok \/ d.v.k # "obj" THEN NoData
       ELSE IF ~Has(d.v, "steps") THEN NoData
       ELSE IF Get(d.v, "steps").k # "arr" THEN NoData
       ELSE LET steps0 == Get(d.v, "steps").items
            IN [ok |-> TRUE,
                steps |-> [i \in 1..Len(steps0) |-> WithParams(steps0[i])]]

clean_response(text) ==
    validate_json(fix_steps_array(fix_json_structure(
        extract_json(initial_clean(text)))))

(***************************************************************************)
(* The loop over data["steps"] of parse_llm_response.                      *)
(***************************************************************************)
\* `if not action_name`: no action, or an empty string, list or dict
Falsy(v) == v.s = <<>> /\ v.items = <<>>

\* the fields of the params dataclasses, and those without a default
Fields(action) ==
    IF action = "search" THEN {<<"keywords">>}
    ELSE IF action = "click_result" THEN {<<"index">>, <<"link_text">>}
    ELSE {<<"selector">>, <<"attribute">>, <<"keywords">>}

Required(action) ==
    IF action = "search" THEN {<<"keywords">>}
    ELSE IF action = "click_result" THEN {}
    ELSE {<<"selector">>}

\* str(value)
StrOf(v) == IF v.k = "str" THEN v.s ELSE <<"repr">>

\* the params handed to the dataclass: every value a string; for
\* click_result `index` defaults to "0" and an empty link_text becomes ".*"
Params(action, params) ==
    LET given == {<<params.keys[i], StrOf(Get(params, params.keys[i][1]))>> :
                    i \in {j \in 1..Len(params.keys) : Len(params.keys[j]) = 1}}
                 \cup {<<params.keys[i], <<"repr">> >> :
                    i \in {j \in 1..Len(params.keys) : Len(params.keys[j]) # 1}}
    IN IF action # "click_result" THEN given
       ELSE LET withIndex ==
                    IF <<"index">> \in KeySet(params) THEN given
                    ELSE given \cup {<< <<"index">>, <<"0">> >>}
            IN IF \E kv \in withIndex : kv[1] = <<"link_text">> /\ kv[2] # <<>>
               THEN withIndex
               ELSE {kv \in withIndex : kv[1] # <<"link_text">>}
                        \cup {<< <<"link_text">>, <<".*">> >>}

\* the defaults of the fields of the params dataclasses
Defaults(action) ==
    IF action = "click_result"
    THEN {<< <<"index">>, <<"0">> >>, << <<"link_text">>, <<>> >>}
    ELSE IF action = "extract_text"
    THEN {<< <<"attribute">>, <<"text">> >>, << <<"keywords">>, <<>> >>}
    ELSE {}

\* SearchParams(**params), ClickParams(**params), ExtractParams(**params)
Constructed(action, ps) ==
    ps \cup {d \in Defaults(action) : \A kv \in ps : kv[1] # d[1]}

NoStep == [action |-> "-", params |-> {}]

\* one pass of the loop body: the Step appended, or NoStep when the step is
\* skipped (`continue`, also from the except clause)
StepOf(data) ==
    IF data.k # "obj" THEN NoStep
    ELSE IF ~Has(data, "action") THEN NoStep
    ELSE LET action_name == Get(data, "action")
             params == Get(data, "params")
         IN IF Falsy(action_name) THEN NoStep
            ELSE IF action_name.k # "str" \/ Len(action_name.s) # 1 THEN NoStep
            ELSE IF action_name.s[1] \notin ActionType THEN NoStep
            ELSE LET action == action_name.s[1]
                 IN IF action = "back" THEN [action |-> action, params |-> {}]
                    ELSE IF action \in {"click_next", "verify"} THEN NoStep
                    ELSE IF params.k # "obj" THEN NoStep
                    ELSE LET ps == Params(action, params)
                             names == {kv[1] : kv \in ps}
                         IN IF names \subseteq Fields(action)
                               /\ Required(action) \subseteq names
                            THEN [action |-> action,
                                  params |-> Constructed(action, ps)]
                            ELSE NoStep

RECURSIVE StepsOf(_)
StepsOf(items) ==
    IF items = <<>> THEN <<>>
    ELSE LET step == StepOf(Head(items))
         IN (IF step = NoStep THEN <<>> ELSE <<step>>) \o StepsOf(Tail(items))

Failure == [raised |-> "ValueError", steps |-> <<>>]

\* parse_llm_response: the steps, or ValueError (of the cleaning, or
\* because no step is left)
parse_llm_response(response) ==
    LET data == clean_response(response)
    IN IF ~data.ok THEN Failure
       ELSE LET built == StepsOf(data.steps)
            IN IF built = <<>> THEN Failure
               ELSE [raised |-> NoException, steps |-> built]

\* the replies: a plan, as a clean object with something before and after
\* it, or cut off
RawReplies ==
    [plan : Plans, before : Before, after : After, damage : {"none"}]
    \cup [plan : Plans, before : {<<>>}, after : {<<>>}, damage : Damages]

RawText(r) == r.before \o Damaged(r.plan, r.damage) \o r.after

InitParse ==
    /\ reply \in RawReplies
    /\ parsed = [raised |-> "-", steps |-> <<>>]

IdleParse ==
    /\ reply = [plan |-> <<>>, before |-> <<>>, after |-> <<>>, damage |-> "none"]
    /\ parsed = [raised |-> "-", steps |-> <<>>]

\* parse_llm_response on the reply as received
ParseLlmResponse ==
    /\ parsed.raised = "-"
    /\ parsed' = parse_llm_response(RawText(reply))
    /\ UNCHANGED <<reply, ctxVars, agentVars, waVars, dsVars, llmVars,
                   retryVars, viewVars, clickVars, extractVars, toldVars,
                   controllerVars, wiredVars>>

NextParse == ParseLlmResponse

(***************************************************************************)
(* WorkAssistant._execute_click_result and _execute_extract_text           *)
(* (src/main.py): one step on the page the browser shows.                  *)
(***************************************************************************)
\* a result of the page: whether its text holds the ad mark, whether
\* reading its text raises, the href of its link ("" when it has none)
Results == [ad : BOOLEAN, stale : BOOLEAN, href : {"a", "b", ""}]

\* values of ClickParams.index, a string, as sequences of characters
Indexes ==
    {<<"0">>, <<"1">>, <<"3">>, <<"1", "0">>, <<"-", "1">>, <<"-", "2">>,
     <<"-", "3">>, <<"x">>, <<"-">>, <<>>}

\* the driver call of _execute_click_result that raises, if any
ClickFaults == {"none", "wait", "scroll", "link", "open", "switch", "load"}

Digits == [c \in {"0", "1", "2", "3", "4", "5", "6", "7", "8", "9"} |->
              CASE c = "0" -> 0 [] c = "1" -> 1 [] c = "2" -> 2 [] c = "3" -> 3
                [] c = "4" -> 4 [] c = "5" -> 5 [] c = "6" -> 6 [] c = "7" -> 7
                [] c = "8" -> 8 [] c = "9" -> 9]

RECURSIVE DigitsValue(_)
DigitsValue(s) ==
    IF s = <<>> THEN 0
    ELSE 10 * DigitsValue(SubSeq(s, 1, Len(s) - 1)) + Digits[s[Len(s)]]

\* the digits of a literal without its sign
Unsigned(s) == IF s # <<>> /\ s[1] = "-" THEN Tail(s) ELSE s

\* int(s) accepts an optional sign followed by digits; ValueError otherwise
IsInt(s) ==
    /\ Unsigned(s) # <<>>
    /\ \A i \in 1..Len(Unsigned(s)) : Unsigned(s)[i] \in DOMAIN Digits

int(s) ==
    IF s # <<>> /\ s[1] = "-" THEN 0 - DigitsValue(Unsigned(s))
    ELSE DigitsValue(s)

\* valid_results: the positions of the results whose text could be read and
\* does not hold the ad mark, in page order
RECURSIVE valid_results(_, _)
valid_results(results, from) ==
    IF from > Len(results) THEN <<>>
    ELSE (IF ~results[from].stale /\ ~results[from].ad THEN <<from>> ELSE <<>>)
         \o valid_results(results, from + 1)

\* seq[i] of a Python list: the 1-based position, 0 for IndexError
Subscript(len, i) ==
    IF i >= 0 THEN (IF i < len THEN i + 1 ELSE 0)
    ELSE (IF len + i >= 0 THEN len + i + 1 ELSE 0)

Clicked(returned, opened) == [returned |-> returned, opened |-> opened]

\* _execute_click_result: the value returned and the positions of the
\* results opened in a new tab
click_result(results, index, fault) ==
    LET valid == valid_results(results, 1)
    IN IF fault = "wait" \/ results = <<>> THEN Clicked(FALSE, <<>>)
       ELSE IF valid = <<>> THEN Clicked(FALSE, <<>>)
       ELSE IF ~IsInt(index) THEN Clicked(FALSE, <<>>)
       ELSE LET at == Subscript(Len(valid), Min(int(index), Len(valid) - 1))
            IN IF at = 0 THEN Clicked(FALSE, <<>>)
               ELSE IF fault \in {"scroll", "link"} THEN Clicked(FALSE, <<>>)
               ELSE IF results[valid[at]].href = "" THEN Clicked(FALSE, <<>>)
               ELSE IF fault = "open" THEN Clicked(FALSE, <<>>)
               ELSE IF fault \in {"switch", "load"}
                    THEN Clicked(FALSE, <<valid[at]>>)
               ELSE Clicked(TRUE, <<valid[at]>>)

NotClicked ==
    [pc |-> "idle", returned |-> FALSE, opened |-> <<>>, fault |-> "none"]

InitClick ==
    /\ click = NotClicked
    /\ click_results \in SeqsUpTo(Results, MaxResults)
    /\ click_params \in [index : Indexes]

IdleClick ==
    /\ click = NotClicked
    /\ click_results = <<>>
    /\ click_params = [index |-> <<"0">>]

\* one call of _execute_click_result
ClickResult(fault) ==
    /\ click.pc = "idle"
    /\ LET out == click_result(click_results, click_params.index, fault)
       IN click' = [pc |-> "done", returned |-> out.returned,
                    opened |-> out.opened, fault |-> fault]
    /\ UNCHANGED <<click_results, click_params, extractVars, ctxVars, agentVars,
                   waVars, dsVars, llmVars, retryVars, viewVars, parseVars,
                   toldVars, controllerVars, wiredVars>>

NextClick == \E fault \in ClickFaults : ClickResult(fault)

\* the selectors _execute_extract_text tries, in order
selectors(params) ==
    <<params.selector, "article", ".article", ".content", "#content", "main",
      ".main-content", ".post-content", ".entry-content", ".text", "p", "body">>

\* an element: whether reading it raises, its text and its title attribute
Element(stale, text, title) == [stale |-> stale, text |-> text, title |-> title]

\* an attribute the element does not have reads as None, which the code
\* treats as it treats the empty string: NoValue stands for both
NoValue == <<>>

\* what a selector finds: the elements present; none (the wait for them
\* ends in TimeoutException) is the empty sequence
Found ==
    {<<>>,
     <<Element(FALSE, <<Space>>, NoValue)>>,
     <<Element(FALSE, <<Space, "t", Space>>, <<"u">>)>>,
     <<Element(TRUE, <<"s">>, <<"s">>), Element(FALSE, <<"v">>, <<>>)>>,
     <<Element(FALSE, <<"x">>, NoValue), Element(FALSE, <<>>, <<"y">>),
       Element(FALSE, <<"z", Space>>, <<"w">>)>>}

\* the selectors whose elements differ from page to page
Varying == {"h1", "article", "body"}

\* the pages: selector -> what it finds
ExtractPages ==
    {[s \in Varying \cup {"", "h2"} \cup
            {selectors([selector |-> ""])[n] : n \in 1..12} |->
          IF s \in Varying THEN f[s] ELSE <<>>] : f \in [Varying -> Found]}

ExtractParamsSet == [selector : {"h1", "h2", "body", ""}, attribute : {"text", "title"}]

\* reads of driver.current_url that raise: none, the first one, every one
UrlFaults == {"none", "first", "all"}

\* str.strip() for the space character
RECURSIVE strip(_)
strip(text) ==
    IF text = <<>> THEN text
    ELSE IF Head(text) = Space THEN strip(Tail(text))
    ELSE IF text[Len(text)] = Space THEN strip(SubSeq(text, 1, Len(text) - 1))
    ELSE text

\* the values appended to `texts` for the elements of one selector
RECURSIVE texts(_, _)
texts(elements, attribute) ==
    IF elements = <<>> THEN <<>>
    ELSE LET element == Head(elements)
             text == IF attribute = "text" THEN element.text ELSE element.title
             kept == IF element.stale THEN <<>>            \* except: continue
                     ELSE IF text = NoValue THEN <<>>
                     ELSE IF strip(text) = <<>> THEN <<>>
                     ELSE <<strip(text)>>
         IN kept \o texts(Tail(elements), attribute)

\* "\n".join(texts)
RECURSIVE join(_)
join(lines) ==
    IF lines = <<>> THEN <<>>
    ELSE IF Len(lines) = 1 THEN lines[1]
    ELSE lines[1] \o <<Newline>> \o join(Tail(lines))

DataLimit == 5000

\* the texts a selector yields on a page; the empty selector is no valid
\* CSS selector and the search for it raises
Yield(page, selector, attribute) ==
    IF selector = "" THEN <<>>
    ELSE texts(page[selector], attribute)

Extracted(returned, collected, tried) ==
    [pc |-> "done", returned |-> returned, collected |-> collected,
     tried |-> tried]

\* the loop over the selectors from position n on; reads counts the reads
\* of driver.current_url so far
RECURSIVE extract_from(_, _, _, _, _)
extract_from(page, params, fault, n, reads) ==
    LET all == selectors(params)
    IN IF n > Len(all) THEN Extracted(FALSE, <<>>, <<>>)
       ELSE LET found == Yield(page, all[n], params.attribute)
                raises == fault = "all" \/ (fault = "first" /\ reads = 0)
                rest == extract_from(page, params, fault, n + 1,
                                     IF found = <<>> THEN reads ELSE reads + 1)
            IN IF found # <<>> /\ ~raises
               THEN Extracted(TRUE,
                              <<[type |-> "text",
                                 data |-> SubSeq(join(found), 1,
                                                 Min(Len(join(found)), DataLimit)),
                                 url |-> "page"]>>,
                              <<all[n]>>)
               ELSE Extracted(rest.returned, rest.collected,
                              <<all[n]>> \o rest.tried)

\* _execute_extract_text: the value returned, the entries appended to
\* collected_info and the selectors tried
extract_text(page, params, fault) == extract_from(page, params, fault, 1, 0)

NotExtracted ==
    [pc |-> "idle", returned |-> FALSE, collected |-> <<>>, tried |-> <<>>]

InitExtract ==
    /\ extract = NotExtracted
    /\ extract_page \in ExtractPages
    /\ extract_params \in ExtractParamsSet

IdleExtract ==
    /\ extract = NotExtracted
    /\ extract_page = CHOOSE p \in ExtractPages : \A s \in Varying : p[s] = <<>>
    /\ extract_params = [selector |-> "h1", attribute |-> "text"]

\* one call of _execute_extract_text
ExtractText(fault) ==
    /\ extract.pc = "idle"
    /\ extract' = extract_text(extract_page, extract_params, fault)
    /\ UNCHANGED <<extract_page, extract_params, clickVars, ctxVars, agentVars,
                   waVars, dsVars, llmVars, retryVars, viewVars, parseVars,
                   toldVars, controllerVars, wiredVars>>

NextExtract == \E fault \in UrlFaults : ExtractText(fault)

(***************************************************************************)
(* ContextManager.add_state_message on message texts                       *)
(* (Agent/contextmanager/service.py): which messages it appends, in which  *)
(* order, and which part of an error text they carry.                      *)
(***************************************************************************)
\* str(r.content) and str(r.error) as sequences of characters; the empty
\* sequence stands for None and for ''
TextResults ==
    [content : {<<>>, <<"c">>}, error : {<<>>, <<"x", "y", "z">>},
     include_in_memory : BOOLEAN]

\* s[-k:] of a Python string: s[-0:] is s[0:], the whole string
Slice(s, k) ==
    IF k = 0 THEN s ELSE SubSeq(s, Max(1, Len(s) - k + 1), Len(s))

\* a message of the history: what it is, the result it is about (0: none)
\* and the text that follows its prefix
Told(kind, of, text) == [kind |-> kind, of |-> of, text |-> text]

\* the loop over result from position i on
RECURSIVE told_results(_, _, _)
told_results(rs, k, i) ==
    IF i > Len(rs) THEN <<>>
    ELSE LET r == rs[i]
             content == IF r.include_in_memory /\ r.content # <<>>
                        THEN <<Told("content", i, r.content)>> ELSE <<>>
             error == IF r.include_in_memory /\ r.error # <<>>
                      THEN <<Told("error", i, Slice(r.error, k))>> ELSE <<>>
         IN content \o error \o told_results(rs, k, i + 1)

\* the messages add_state_message appends: the state message is composed
\* without the results once one of them has been put into the history
told_state(rs, k) ==
    told_results(rs, k, 1)
        \o <<Told(IF \E i \in 1..Len(rs) : rs[i].include_in_memory
                  THEN "state" ELSE "state_with_results", 0, <<>>)>>

\* the history the constructor leaves, by kind of message
ToldConstructed ==
    <<Told("system", 0, <<>>), Told("example", 0, <<>>), Told("task", 0, <<>>)>>

InitTold ==
    /\ told = [pc |-> "idle", messages |-> ToldConstructed]
    /\ told_result \in SeqsUpTo(TextResults, MaxResults)
    /\ max_error_length \in 0..MaxErrorLength

IdleTold ==
    /\ told = [pc |-> "idle", messages |-> ToldConstructed]
    /\ told_result = <<>>
    /\ max_error_length = MaxErrorLength

\* one call of add_state_message(state, result)
AddStateMessage ==
    /\ told.pc = "idle"
    /\ told' = [pc |-> "done",
                messages |-> told.messages
                                 \o told_state(told_result, max_error_length)]
    /\ UNCHANGED <<told_result, max_error_length, ctxVars, agentVars, waVars,
                   dsVars, llmVars, retryVars, viewVars, parseVars, clickVars,
                   extractVars,
                   controllerVars, wiredVars>>

NextTold == AddStateMessage

(***************************************************************************)
(* ControllerService.execute_action and execute_actions                    *)
(* (Controller/service.py).                                                *)
(***************************************************************************)
\* the names _register_default_actions registers
DefaultRegistry ==
    {"search_google", "navigate_to", "click_element", "input_text",
     "scroll_page", "extract_content"}

\* the registries: the default one, and the default one with an action
\* `done`, registered through the decorator, that takes no parameter and
\* returns ActionResult(is_done=True)
Registries == {DefaultRegistry, DefaultRegistry \cup {"done"}}

\* the value under "params" of an action: {"url": u} for a page that
\* loads ("url"), for one whose navigation raises ("boom") or raises with
\* an empty message ("quiet"); {"wrong": 1}; {}; None
ParamKinds == {"url", "boom", "quiet", "wrong", "empty", "none"}

ControllerActions == [action : {"navigate_to", "done", "fly"}, params : ParamKinds]

\* `if result.error`: the error of an ActionResult is "None", the empty
\* string or a message, and None and '' are false
Truthy(error) == error \notin {"None", ""}

\* await action(**params) of the registered function
Called(name, params) ==
    IF name = "navigate_to"
    THEN CASE params = "url" -> [raised |-> FALSE, value |-> ActionResult("None", FALSE)]
           [] params = "boom" -> [raised |-> TRUE, value |-> "navigation failed"]
           [] params = "quiet" -> [raised |-> TRUE, value |-> ""]
           [] OTHER -> [raised |-> TRUE, value |-> "TypeError"]
    ELSE IF name = "done" /\ params = "empty"
    THEN [raised |-> FALSE, value |-> ActionResult("None", TRUE)]
    ELSE [raised |-> TRUE, value |-> "TypeError"]

\* execute_action(action_name, **params)
execute_action(registry, action_name, params) ==
    IF action_name \notin registry THEN ActionResult("unknown action", FALSE)
    ELSE LET called == Called(action_name, params)
         IN IF called.raised THEN ActionResult(called.value, FALSE)
            ELSE called.value

Executed(raised, results) == [pc |-> "done", raised |-> raised, results |-> results]

\* the loop of execute_actions from position i on; `**params` is evaluated
\* by the caller of execute_action and raises TypeError when params is no
\* mapping
RECURSIVE execute_actions(_, _, _, _)
execute_actions(registry, actions, i, results) ==
    IF i > Len(actions) THEN Executed(NoException, results)
    ELSE IF actions[i].params = "none" THEN Executed("TypeError", <<>>)
    ELSE LET got == execute_action(registry, actions[i].action, actions[i].params)
             all == Append(results, got)
         IN IF Truthy(got.error) \/ got.is_done
            THEN Executed(NoException, all)
            ELSE execute_actions(registry, actions, i + 1, all)

NotExecuted == [pc |-> "idle", raised |-> NoException, results |-> <<>>]

InitController ==
    /\ controlled = NotExecuted
    /\ ctl_registry \in Registries
    /\ ctl_actions \in SeqsUpTo(ControllerActions, MaxResults)

IdleController ==
    /\ controlled = NotExecuted
    /\ ctl_registry = DefaultRegistry
    /\ ctl_actions = <<>>

\* one call of execute_actions(actions)
ExecuteActions ==
    /\ controlled.pc = "idle"
    /\ controlled' = execute_actions(ctl_registry, ctl_actions, 1, <<>>)
    /\ UNCHANGED <<ctl_registry, ctl_actions, ctxVars, agentVars, waVars,
                   dsVars, llmVars, retryVars, viewVars, parseVars, clickVars,
                   extractVars, toldVars,
                   wiredVars>>

NextController == ExecuteActions

(***************************************************************************)
(* The browser services of an Agent: Agent.__init__ and _cleanup           *)
(* (Agent/service/service.py), ControllerService.__init__ and its actions  *)
(* (Controller/service.py), BrowserService (Browserservice/service.py).    *)
(***************************************************************************)
NoUrl == "None"

\* BrowserService(): no page loaded; `closes` counts the calls of close()
BrowserService == [current_url |-> NoUrl, closes |-> 0]

\* the `controller` argument: none; a ControllerService as its constructor
\* leaves it; one whose browser_service the caller has set to the service
\* it also hands to the agent
GivenControllers == {"none", "own", "shared"}

\* Agent(task, llm, browser_service, controller).  BrowserService objects
\* are numbered in the order of their creation.  has_page tells whether a
\* BrowserService carries the attribute `page` that line 57 reads (the
\* class of Browserservice/service.py does not define it: AttributeError).
Agent__init__(given_browser, given_controller, has_page) ==
    LET caller == IF given_browser THEN <<BrowserService>> ELSE <<>>
        \* ControllerService.__init__: self.browser_service = BrowserService()
        made == IF given_controller = "none" THEN caller
                ELSE Append(caller, BrowserService)
        theirs == IF given_controller = "shared" /\ given_browser THEN 1
                  ELSE IF given_controller = "none" THEN 0 ELSE Len(made)
        \* browser_service or BrowserService()
        withOwn == IF given_browser THEN made ELSE Append(made, BrowserService)
        own == IF given_browser THEN 1 ELSE Len(withOwn)
        \* controller or ControllerService()
        all == IF given_controller = "none" THEN Append(withOwn, BrowserService)
               ELSE withOwn
        driven == IF given_controller = "none" THEN Len(all) ELSE theirs
    IN [pc |-> IF has_page THEN "loop" ELSE "failed",
        default |-> ~given_browser /\ given_controller = "none",
        browser_service |-> own,
        controller_browser |-> driven,
        services |-> all,
        navigated |-> <<>>]

\* the action navigate_to(url) of the controller:
\* await self.browser_service.navigate(url)
navigate_to(w, url) ==
    [w EXCEPT !.services[w.controller_browser].current_url = url,
              !.navigated = Append(@, url)]

\* BrowserService.close()
BrowserClosed(b) == [current_url |-> NoUrl, closes |-> b.closes + 1]

\* Agent._cleanup: await self.browser_service.close()
AgentCleanup(w) ==
    [w EXCEPT !.services[w.browser_service] = BrowserClosed(@),
              !.pc = "exited"]

NotWired ==
    [pc |-> "new", default |-> FALSE, browser_service |-> 0,
     controller_browser |-> 0, services |-> <<>>, navigated |-> <<>>]

InitWired == wired = NotWired

IdleWired == InitWired

ConstructAgent(given_browser, given_controller, has_page) ==
    /\ wired.pc = "new"
    /\ wired' = Agent__init__(given_browser, given_controller, has_page)
    /\ UNCHANGED <<ctxVars, agentVars, waVars, dsVars, llmVars, retryVars,
                   viewVars, parseVars, clickVars, extractVars, toldVars,
                   controllerVars>>

\* a step of run() in which the controller executes navigate_to
ControllerNavigates(url) ==
    /\ wired.pc = "loop"
    /\ Len(wired.navigated) < max_steps
    /\ wired' = navigate_to(wired, url)
    /\ UNCHANGED <<ctxVars, agentVars, waVars, dsVars, llmVars, retryVars,
                   viewVars, parseVars, clickVars, extractVars, toldVars,
                   controllerVars>>

\* run() ends: the finally clause calls _cleanup
RunEnds ==
    /\ wired.pc = "loop"
    /\ wired' = AgentCleanup(wired)
    /\ UNCHANGED <<ctxVars, agentVars, waVars, dsVars, llmVars, retryVars,
                   viewVars, parseVars, clickVars, extractVars, toldVars,
                   controllerVars>>

NextWired ==
    \/ \E given_browser \in BOOLEAN, given_controller \in GivenControllers,
          has_page \in BOOLEAN :
           ConstructAgent(given_browser, given_controller, has_page)
    \/ \E url \in {"u", "v"} : ControllerNavigates(url)
    \/ RunEnds

Init ==
    /\ InitCtx /\ InitAgent /\ InitWA /\ InitDS /\ InitLLM /\ InitRetry
    /\ InitView /\ InitParse /\ InitClick /\ InitExtract /\ InitTold
    /\ InitController /\ InitWired

\* a component that is constructed with its defaults and then left alone
IdleCtx == InitCtx /\ tokens_per_char = TokensPerChar

IdleWA == InitWA /\ auto_close_browser

\* SearchConfig(): deep_search is off by default; the limits are the largest
\* of the model
DefaultSearch ==
    [deep_search |-> FALSE, max_pages |-> MaxPages, max_results |-> MaxResults,
     max_depth |-> MaxDepth, quality_threshold |-> quality_threshold]

IdleDS ==
    /\ search_config = DefaultSearch
    /\ web = CHOOSE w \in Webs : TRUE
    /\ InitDS

IdleRetry ==
    /\ InitRetry
    /\ retry_args.max_retries = MaxRetries
    /\ retry_args.delay = 1

IdleCalls ==
    /\ IdleDS /\ InitLLM /\ IdleRetry /\ InitView /\ IdleParse /\ IdleClick
    /\ IdleExtract /\ IdleTold /\ IdleController /\ IdleWired

Next == NextCtx \/ NextHist \/ NextView \/ NextWA \/ NextDS \/ NextLLM
            \/ NextRetry \/ NextParse \/ NextClick \/ NextExtract \/ NextTold
            \/ NextController \/ NextWired

Spec == Init /\ [][Next]_vars

\* initial states of the component specifications
InitCtxOnly == InitCtx /\ InitAgent /\ IdleWA /\ IdleCalls

InitAgentOnly == IdleCtx /\ InitAgent /\ IdleWA /\ IdleCalls

InitWAOnly == IdleCtx /\ InitAgent /\ InitWA /\ IdleCalls

\* deep_search, and the Search step with deep search off and two pages of
\* results at most
InitDSOnly ==
    /\ search_config \in {c \in SearchConfigs : ~c.deep_search /\ c.max_pages = 2}
    /\ IdleCtx /\ InitAgent /\ IdleWA /\ InitDS /\ InitLLM /\ IdleRetry
    /\ InitView /\ IdleParse /\ IdleClick /\ IdleExtract /\ IdleTold
    /\ IdleController /\ IdleWired

InitLLMOnly == IdleCtx /\ InitAgent /\ IdleWA /\ IdleCalls

InitRetryOnly ==
    /\ IdleCtx /\ InitAgent /\ IdleWA /\ IdleDS /\ InitLLM /\ InitRetry
    /\ InitView /\ IdleParse /\ IdleClick /\ IdleExtract /\ IdleTold
    /\ IdleController /\ IdleWired

SpecCtx == InitCtxOnly /\ [][NextCtx]_vars

SpecHist == InitCtxOnly /\ [][NextHist]_vars

InitScenarioOnly == InitScenario /\ InitAgent /\ IdleWA /\ IdleCalls

SpecScenario == InitScenarioOnly /\ [][NextScenario]_vars

SpecAgent == InitAgentOnly /\ [][NextAgent]_vars

SpecView == InitAgentOnly /\ [][NextView]_vars

SpecWA == InitWAOnly /\ [][NextWA]_vars

SpecDS == InitDSOnly /\ [][NextDS]_vars

SpecLLM == InitLLMOnly /\ [][NextLLM]_vars

SpecRetry == InitRetryOnly /\ [][NextRetry]_vars

InitParseOnly ==
    /\ IdleCtx /\ InitAgent /\ IdleWA /\ IdleDS /\ InitLLM /\ IdleRetry
    /\ InitView /\ InitParse /\ IdleClick /\ IdleExtract /\ IdleTold
    /\ IdleController /\ IdleWired

SpecParse == InitParseOnly /\ [][NextParse]_vars

InitSearchOnly ==
    /\ search_config \in {c \in SearchConfigs : c.max_depth = MaxDepth}
    /\ IdleCtx /\ InitAgent /\ IdleWA /\ InitDS /\ InitLLM /\ IdleRetry
    /\ InitView /\ IdleParse /\ IdleClick /\ IdleExtract /\ IdleTold
    /\ IdleController /\ IdleWired

SpecSearch == InitSearchOnly /\ [][NextSearch]_vars

InitClickOnly ==
    /\ IdleCtx /\ InitAgent /\ IdleWA /\ IdleDS /\ InitLLM /\ IdleRetry
    /\ InitView /\ IdleParse /\ InitClick /\ IdleExtract /\ IdleTold
    /\ IdleController /\ IdleWired

SpecClick == InitClickOnly /\ [][NextClick]_vars

InitExtractOnly ==
    /\ IdleCtx /\ InitAgent /\ IdleWA /\ IdleDS /\ InitLLM /\ IdleRetry
    /\ InitView /\ IdleParse /\ IdleClick /\ InitExtract /\ IdleTold
    /\ IdleController /\ IdleWired

SpecExtract == InitExtractOnly /\ [][NextExtract]_vars

InitToldOnly ==
    /\ IdleCtx /\ InitAgent /\ IdleWA /\ IdleDS /\ InitLLM /\ IdleRetry
    /\ InitView /\ IdleParse /\ IdleClick /\ IdleExtract /\ InitTold
    /\ IdleController /\ IdleWired

SpecTold == InitToldOnly /\ [][NextTold]_vars

InitControllerOnly ==
    /\ IdleCtx /\ InitAgent /\ IdleWA /\ IdleDS /\ InitLLM /\ IdleRetry
    /\ InitView /\ IdleParse /\ IdleClick /\ IdleExtract /\ IdleTold
    /\ InitController /\ IdleWired

SpecController == InitControllerOnly /\ [][NextController]_vars

InitWiredOnly ==
    /\ IdleCtx /\ InitAgent /\ IdleWA /\ IdleDS /\ InitLLM /\ IdleRetry
    /\ InitView /\ IdleParse /\ IdleClick /\ IdleExtract /\ IdleTold
    /\ IdleController /\ InitWired

SpecWired == InitWiredOnly /\ [][NextWired]_vars

(***************************************************************************)
(* Properties.                                                             *)
(***************************************************************************)

\* C1: in every reachable state of the history - after any sequence of
\* add_message, remove_message and trims, image stripping included -
\* total_tokens equals the sum of input_tokens over the messages held.
C1_TotalIsSum == total_tokens = SumTokens(messages)

\* a trim has just stripped an image from the last message in place
C1_Witness ==
    /\ ctxLast.op = "get_messages"
    /\ ctxLast.how = "stripped"
    /\ Len(messages) > 0
    /\ total_tokens > 0

\* C2: whenever get_messages returns normally on a history built from
\* system, model-output and state messages, total_tokens <= max_input_tokens.
C2_WithinBudgetAfterGet ==
    (apiOnly /\ ctxLast.op = "get_messages" /\ ctxLast.result = "ok")
        => total_tokens <= MaxInputTokens

\* C3: Agent.run ends after at most max_steps + max_failures invocations of
\* step, whatever the collaborators do.
C3_BoundedInvocations == invocations <= max_steps + max_failures

\* a step invocation whose result carries an error: the exception caught
\* inside step(), or an error result of the controller
StepYieldsError ==
    \/ StepCaught
    \/ \E results \in ResultLists : HasError(results) /\ StepReturns(results)

\* C4: every step invocation that yields a result carrying an error
\* increases the failure counter by exactly one.
C4_ErrorCountsFailure == [][StepYieldsError => failures' = failures + 1]_vars

\* C5: every exit of Agent.run is preceded by exactly one invocation of the
\* cleanup, which closes the browser service once, and a failure inside the
\* cleanup does not replace the outcome of the run.
C5_CleanupOnceOutcomeKept ==
    /\ agentPc = "exited" =>
          /\ cleanupCalls = 1
          /\ closeCalls = 1
          /\ ownOutcome.kind # "none"
          /\ outcome = ownOutcome
    /\ agentPc # "exited" => cleanupCalls = 0 /\ outcome = NoOutcome

\* the run returned the results of a done step although close() raised
C5_Witness ==
    /\ agentPc = "exited"
    /\ agentLast = "cleanup_failed"
    /\ outcome.kind = "returned"
    /\ IsDone(outcome.value)

TaskExited == waLast.op = "execute_task" /\ waLast.result \in {"returned", "raised"}

\* C6 (as stated): after execute_task returns or raises, the driver is
\* closed (self.driver is None).
C6_DriverClosedOnExit == TaskExited => driver = None

\* C6 (amended): with auto_close_browser set, after execute_task returns or
\* raises the driver is closed (self.driver is None).
C6_DriverClosedWhenAutoClose ==
    (auto_close_browser /\ TaskExited) => driver = None

\* execute_task raised after the driver had been started, and close() quit it
C6_Witness ==
    /\ auto_close_browser
    /\ waLast = WaOp("execute_task", "raised")
    /\ taskNo > 0
    /\ quitByClose[taskNo] = 1
    /\ driver = None

\* C7: close never raises, leaves driver = None and wait = None in whatever
\* state it is called, and over any number of calls quits a driver at most
\* once.
C7_CloseIdempotent ==
    /\ waLast.op = "close" =>
          /\ waLast.result # "raised"
          /\ driver = None
          /\ wait = None
    /\ \A d \in Drivers : quitByClose[d] <= 1

\* a close found nothing to do after an earlier close whose quit() raised
\* or not had released the driver
C7_Witness ==
    /\ waLast = WaOp("close", "no_driver")
    /\ ~auto_close_browser
    /\ \E d \in Drivers : quitByClose[d] = 1

AllOk(ex) == \A i \in 1..Len(ex) : ex[i].ok

\* C8: execute_task executes the steps in plan order, each at most once;
\* no step follows a failed one; when none fails all len(plan) steps run.
C8_StepsInOrder ==
    /\ \A i \in 1..Len(executed) : executed[i].idx = i
    /\ Len(executed) <= Len(plan)
    /\ \A i \in 1..(Len(executed) - 1) : executed[i].ok
    /\ (waPc \in {"format", "idle"} /\ plan # <<>> /\ AllOk(executed))
          => Len(executed) = Len(plan)

\* the canonical 3-step plan ran to its end without a failure
C8_Witness ==
    /\ waPc = "format"
    /\ Len(plan) = 3
    /\ Len(executed) = 3
    /\ AllOk(executed)

\* C9: a step is reported as failed only after it has failed max_retries
\* times.
C9_RetriedUntilMax ==
    \A i \in 1..Len(executed) :
        ~executed[i].ok => executed[i].attempts = max_retries

\* C10: execute_step returns a success/failure value and never raises, for
\* every step and every failure of the driver.
C10_ExecuteStepNeverRaises ==
    waLast.op \in {"execute_step", "execute_step_direct"}
        => waLast.result \in {"True", "False"}

\* execute_step was handed an object without an action and returned False
C10_Witness == waLast = WaOpArg("execute_step_direct", "False", NoAttr)

\* input_tokens never becomes negative (domain of chars_to_remove)
NonNegativeTokens == \A i \in 1..Len(messages) : messages[i].input_tokens >= 0

(***************************************************************************)
(* Properties of deep_search, evaluate_content_quality, LLMClient and      *)
(* retry_on_error.                                                         *)
(***************************************************************************)

\* a top-level deep_search call has returned
TopLevelReturned == dsLast.op = "return" /\ stack = <<>>

NoRepeat(seq) == \A i, j \in 1..Len(seq) : i # j => seq[i] # seq[j]

UrlsOf(entries) == [k \in 1..Len(entries) |-> entries[k].url]

\* C11: the list a top-level deep_search returns never holds two entries
\* with the same url, and within one top-level run no url is handed to
\* evaluate_content_quality twice, whatever the links of the pages (links
\* of a page to itself and cycles included) and whatever max_depth and
\* max_results.
C11_NoUrlTwice ==
    /\ NoRepeat(scored)
    /\ TopLevelReturned => NoRepeat(UrlsOf(dsLast.value))

\* C12: when an activation of deep_search has returned - normally or after
\* a driver call of its own or of a recursive call raised - the focused tab
\* is the one that was focused when it was called and the open tabs are
\* those that were open then: every tab it opened is closed again.
C12_TabsRestored ==
    dsLast.op = "return" =>
        /\ Tabs = dsLast.frame.tabsBefore
        /\ current_window_handle = dsLast.frame.focusBefore

\* a frame that has gone past the depth test of deep_search
Visiting(f) == f.pc # "enter"

\* C13: an activation of deep_search with depth >= max_depth returns the
\* empty list at once - it opens no tab, scores nothing and calls nothing -
\* so no page is visited at a depth >= max_depth; with max_depth = 0 a call
\* returns at most one entry and makes no recursive call.
C13_DepthLimit ==
    /\ \A k \in 1..Len(stack) :
           Visiting(stack[k]) => stack[k].depth < search_config.max_depth
    /\ dsLast.op = "return"
         /\ dsLast.frame.depth >= search_config.max_depth =>
           /\ dsLast.value = <<>>
           /\ ~dsLast.failed
           /\ dsLast.frame.opened = None
           /\ dsLast.frame.log = <<>>
           /\ Len(scored) = dsLast.frame.scoredBefore
           /\ Tabs = dsLast.frame.tabsBefore
    /\ dsLast.op = "return" /\ search_config.max_depth = 0 =>
           /\ Len(dsLast.value) <= 1
           /\ dsLast.frame.log = <<>>
           /\ Len(stack) = 0

\* a recursive call at the depth limit has returned to a caller that goes
\* on with its links
C13_Witness ==
    /\ dsLast.op = "return"
    /\ dsLast.frame.depth = search_config.max_depth
    /\ dsLast.frame.depth = MaxDepth
    /\ stack # <<>>
    /\ Top.pc = "children"

\* a top-level call with max_depth = 0 has returned
C13_WitnessZero ==
    /\ TopLevelReturned
    /\ search_config.max_depth = 0

RECURSIVE Flatten(_)
Flatten(log) ==
    IF log = <<>> THEN <<>> ELSE Head(log).value \o Flatten(Tail(log))

\* what the page of activation f contributes itself
OwnEntries(f) ==
    LET r == evaluate_content_quality(web[f.initial_url].reply)
    IN IF r.value >= search_config.quality_threshold
       THEN <<Entry(f.initial_url, r.value)>> ELSE <<>>

\* an activation that visits its page, began with its window open, and none
\* of whose own driver calls raised for a reason of its own, has returned
\* after one of its recursive calls failed
ReturnedAfterChildFailure ==
    /\ dsLast.op = "return"
    /\ dsLast.frame.depth < search_config.max_depth
    /\ dsLast.frame.focusBefore \in dsLast.frame.tabsBefore
    /\ ~dsLast.frame.hit
    /\ \E k \in 1..Len(dsLast.frame.log) : dsLast.frame.log[k].failed

\* the recursive call behind log entry e got as far as opening its tab, or
\* was stopped by the depth limit or by a fault of a driver call of its own
Searched(e) == e.opened \/ e.hit \/ e.depth >= search_config.max_depth

\* C14: a failure inside the recursive call for one link neither keeps the
\* remaining links from being searched nor removes entries from the list of
\* the caller: an activation whose own driver calls meet no fault returns
\* its own entry followed by what each recursive call gave back, one call
\* for each of links[:max_results], and every call after a failed one still
\* searches its page.
C14_ChildFailureContained ==
    ReturnedAfterChildFailure =>
        /\ ~dsLast.failed
        /\ Len(dsLast.frame.log) =
               Len(Candidates(dsLast.frame.links, search_config.max_results))
        /\ dsLast.value = OwnEntries(dsLast.frame) \o Flatten(dsLast.frame.log)
        /\ \A j \in 1..Len(dsLast.frame.log) : Searched(dsLast.frame.log[j])

\* every entry of es carries the score its page was given, and that score is
\* at least the threshold
AllAbove(es) ==
    \A k \in 1..Len(es) :
        /\ es[k].quality_score >= search_config.quality_threshold
        /\ es[k].quality_score =
               evaluate_content_quality(web[es[k].url].reply).value

\* C15: every entry deep_search collects or returns, and every entry the
\* result loop of a Search step collects and adds to collected_info, has a
\* quality_score >= quality_threshold: a page scored below the threshold is
\* never collected.
C15_OnlyAboveThreshold ==
    /\ \A k \in 1..Len(stack) : AllAbove(stack[k].collected_data)
    /\ AllAbove(search.all_results)
    /\ dsLast.op \in {"return", "search_return"} => AllAbove(dsLast.value)

PageScore(u) == evaluate_content_quality(web[u].reply).value

\* a top-level deep_search has returned entries after scoring a page below
\* the threshold
C15_Witness ==
    /\ TopLevelReturned
    /\ dsLast.value # <<>>
    /\ \E k \in 1..Len(scored) :
           PageScore(scored[k]) < search_config.quality_threshold

\* a Search step has added entries after scoring a page below the threshold
C15_WitnessSearch ==
    /\ dsLast.op = "search_return"
    /\ dsLast.value # <<>>
    /\ \E k \in 1..Len(scored) :
           PageScore(scored[k]) < search_config.quality_threshold

\* answers from which no score can be read: no JSON object, malformed JSON,
\* no score key, a score that is no number, an answer without choices
Unparseable == {"no_json", "malformed", "no_score", "word", "null", "no_choices"}

Evaluated == llmLast.op = "evaluate_content_quality"

\* C16: evaluate_content_quality never raises: for every answer of the
\* model (no JSON block, malformed JSON, missing or non-numeric score) and
\* for every failure of the request it returns a value, and when the request
\* failed or no score can be read from the answer that value is 0.0.
C16_ScorerNeverRaises ==
    Evaluated =>
        /\ llmLast.result.raised = NoException
        /\ llmLast.input.transport # "ok" \/ llmLast.input.shape \in Unparseable
               => llmLast.result.value = 0

\* the score of a delivered answer is a word: float() raises ValueError,
\* which the inner except clause does not name
C16_Witness ==
    /\ Evaluated
    /\ llmLast.input.transport = "ok"
    /\ llmLast.input.shape = "word"
    /\ llmLast.result = Result(NoException, 0)

\* C17: the value evaluate_content_quality returns lies in [0, 1] (0..10 in
\* tenths) for every answer of the model, also when the score field of the
\* answer is below 0 or above 1.
C17_ScoreInUnitInterval ==
    Evaluated => llmLast.result.value >= 0 /\ llmLast.result.value <= 10

\* a call of the chat model whose request failed
ChatCallFailed ==
    /\ llmLast.op \in {"create", "evaluate_content_quality"}
    /\ posts # <<>>
    /\ posts[Len(posts)] # "ok"

\* C19: a call of the chat model whose HTTP request fails (non-200 status,
\* malformed body) is repeated by the client, up to its max_retries
\* requests, before the failure reaches the caller.
C19_TransportRetried ==
    ChatCallFailed => Len(posts) = llm_max_retries

Failed(k) == attempts[k] # Returned

WrapperDone == retryPc = "done"

\* C18: the wrapper of retry_on_error(max_retries, delay) invokes the
\* function at most max_retries times; an attempt that returns is the last
\* one and its value is what the wrapper returns; the wrapper sleeps `delay`
\* after every failed attempt except the max_retries-th; and when all
\* max_retries attempts have failed it raises the exception of the last
\* attempt as it is.
C18_RetryWrapper ==
    /\ Len(attempts) <= retry_args.max_retries
    /\ \A k \in 1..Len(attempts) - 1 : Failed(k)
    /\ \A k \in 1..Len(sleeps) : sleeps[k] = retry_args.delay
    /\ retryPc = "call" => Len(sleeps) = Len(attempts)
                             \/ /\ Len(attempts) = retry_args.max_retries
                                /\ Len(sleeps) = Len(attempts) - 1
    /\ WrapperDone /\ retryOutcome.kind = "return" =>
           /\ attempts[Len(attempts)] = Returned
           /\ retryOutcome.value = attempts[Len(attempts)]
           /\ Len(sleeps) = Len(attempts) - 1
    /\ WrapperDone /\ retryOutcome.kind = "raise" /\ attempts # <<>> =>
           /\ Len(attempts) = retry_args.max_retries
           /\ \A k \in 1..Len(attempts) : Failed(k)
           /\ retryOutcome.value = attempts[Len(attempts)]
           /\ Len(sleeps) = Len(attempts) - 1

\* three attempts failed with different exceptions: two sleeps, and the
\* exception of the third attempt is raised
C18_Witness ==
    /\ WrapperDone
    /\ retryOutcome.kind = "raise"
    /\ Len(attempts) = MaxRetries
    /\ attempts[Len(attempts)] # attempts[1]
    /\ retryOutcome.value = attempts[Len(attempts)]
    /\ Len(sleeps) = MaxRetries - 1

\* C20: the collected information from which an execute_task builds its
\* result holds only entries gathered during that invocation: no entry
\* collected by an earlier execute_task of the same WorkAssistant is part of
\* a later task's result.
C20_ResultOfThisTaskOnly ==
    waLast = WaOp("execute_task", "returned") =>
        \A k \in 1..Len(result) : result[k] = taskNo

\* the run returned a list whose last result is not done: post reports it as
\* failed
FailedRunAnswered ==
    /\ post_response # NoResponse
    /\ outcome.kind = "returned"
    /\ ~IsDone(outcome.value)

\* C21: a run that fails still returns the results gathered before the
\* failure, with a failed status: the answer to a run that ended without a
\* done result carries status "failed" and the results the run returned, none
\* of them discarded.
C21_FailedRunKeepsResults ==
    FailedRunAnswered =>
        /\ post_response.status = "failed"
        /\ post_response.results = last_result

C30_NoStepAfterCancel ==
    cancelledAt # -1 => invocations <= cancelledAt + 1

\* C23: when the trim finds the history over budget and the overage left
\* after stripping the images of the last message is more than 99% of that
\* message's token cost - a cost of 0 included - it fails with the
\* context-overflow error (ValueError) and with no other error.
C23_OverflowErrorOnly ==
    (ctxLast.op = "get_messages" /\ ctxLast.how = "raise")
        => ctxLast.result = "ValueError"

\* a step that is a call of get_messages, i.e. of the trim
TrimStep == ctxLast'.op = "get_messages"

HistoryKept == messages' = messages /\ total_tokens' = total_tokens

\* C24: the trim is idempotent: a trim that immediately follows a trim which
\* returned normally leaves the messages and total_tokens as they are, and
\* a trim on a history within budget changes nothing.
C24_TrimIdempotent ==
    [][TrimStep =>
          /\ (ctxLast.op = "get_messages" /\ ctxLast.result = "ok")
                 => HistoryKept
          /\ total_tokens <= MaxInputTokens => HistoryKept]_vars

\* C25: the trim never changes the content, token cost or position of a
\* message other than the last one, and never changes the number of
\* messages.
C25_TrimTouchesLastOnly ==
    [][TrimStep =>
          /\ Len(messages') = Len(messages)
          /\ \A k \in 1..(Len(messages) - 1) : messages'[k] = messages[k]]_vars

\* a trim has cut the text of the last message of a history that holds
\* older messages
C25_Witness ==
    /\ ctxLast.op = "get_messages"
    /\ ctxLast.how = "cut"
    /\ Len(messages) > 3
    /\ messages[Len(messages)].len < MaxLen

\* x is about p percent of n: within five points of it
About(p, x, n) == 100 * x >= (p - 5) * n /\ 100 * x <= (p + 5) * n

\* C26: with max_input_tokens = 100 and a last message that costs 150
\* tokens and holds no image, the trim cuts the text of that message to
\* about 33% of its original length, and total_tokens is at most 100
\* afterwards.
C26_CutToAThird ==
    [][ScenarioTrim =>
          /\ About(33, messages'[Len(messages')].len, messages[Len(messages)].len)
          /\ total_tokens' <= Scenario.max_input_tokens]_vars

(***************************************************************************)
(* Properties of TaskParser.parse_llm_response.                            *)
(***************************************************************************)
\* the actions of the valid steps of a plan, in the order of the plan
RECURSIVE ValidActions(_)
ValidActions(kinds) ==
    IF kinds = <<>> THEN <<>>
    ELSE (IF Head(kinds).valid THEN <<Head(kinds).action>> ELSE <<>>)
             \o ValidActions(Tail(kinds))

ActionsOf(built) == [i \in 1..Len(built) |-> built[i].action]

\* the reply is the clean object of its plan
IsClean(r) == r.before = <<>> /\ r.after = <<>> /\ r.damage = "none"

\* C27: for a reply that is a clean object, the steps returned are the steps
\* of the reply whose action is one of search, click_result, extract_text,
\* back and whose params can be constructed, in the order of the reply; the
\* call fails exactly when there is no such step.
C27_ValidStepsReturned ==
    (parsed.raised # "-" /\ IsClean(reply)) =>
        /\ ActionsOf(parsed.steps) = ValidActions(reply.plan)
        /\ (parsed.raised = "ValueError") <=> (ValidActions(reply.plan) = <<>>)

\* C28: a reply that holds the clean object of its plan between a code
\* fence, prose or stray commas gives the same outcome, and the same steps,
\* as the clean object alone.
C28_NoiseIgnored ==
    (parsed.raised # "-" /\ reply.damage = "none") =>
        parsed = parse_llm_response(CleanReply(reply.plan))

\* the text fix_steps_array receives
Unrepaired(r) == fix_json_structure(extract_json(initial_clean(RawText(r))))

HasStepsKey(text) == \E p \in 1..Len(text) : KeyAt(text, p)

\* C29: when the text with the steps array has more `[` than `]`,
\* fix_steps_array appends as many `]` as are missing, and the repaired
\* text parses; a reply without a steps key fails.
C29_MissingBracketsRepaired ==
    parsed.raised # "-" =>
        LET text == Unrepaired(reply)
            fixed == fix_steps_array(text)
            missing == Count(text, "[") - Count(text, "]")
        IN /\ (HasStepsKey(text) /\ missing > 0) =>
                  /\ Count(fixed, "]") = Count(text, "]") + missing
                  /\ validate_json(fixed).ok
           /\ reply.damage = "no_steps_key" => parsed = Failure

\* a step invocation that returns results whose last one is done
StepDone ==
    \E results \in ResultLists :
        /\ results # <<>> /\ results[Len(results)].is_done
        /\ StepReturns(results)

\* C31: a step whose last result is done makes run() return the results of
\* that step at once; after run() has left its loop no step is executed; and
\* steps never exceeds max_steps.
C31_DoneEndsRun ==
    /\ [](steps <= max_steps)
    /\ [][StepDone => /\ ownOutcome' = Outcome("returned", last_result')
                      /\ agentPc' = "cleanup"]_vars
    /\ [][agentPc # "loop" => /\ steps' = steps
                              /\ invocations' = invocations
                              /\ last_result' = last_result
                              /\ ownOutcome' = ownOutcome]_vars

\* run() has returned the done results of its second step, before max_steps
C31_Witness ==
    /\ agentPc = "exited"
    /\ steps = 2 /\ steps < max_steps
    /\ outcome = Outcome("returned", last_result)
    /\ Len(last_result) = 2 /\ last_result[2].is_done

(***************************************************************************)
(* Properties of the Search step (WorkAssistant._execute_search).          *)
(***************************************************************************)
\* C32: with deep search enabled in the SearchConfig, a Search step that
\* succeeds has invoked deep_search before it returns; with deep search
\* disabled, no deep_search is invoked during a Search step.
C32_DeepSearchWhenEnabled ==
    /\ [][(FinishSearch /\ search_config.deep_search)
              => search.deep_searches > 0]_vars
    /\ [](~search_config.deep_search =>
              (search.deep_searches = 0 /\ (search.pc # "idle" => stack = <<>>)))

\* the button page-next is clicked
TurnsPage == \E how \in PageTurns : NextPage(how) /\ how # "stay"

\* the length of the longest page of results
MaxPageLen == SetMax({Len(SearchPages[n]) : n \in 1..Len(SearchPages)})

\* what is left for the loops of the step to do: the pages it may still
\* turn to and the results of the page it is at
Rank(srch) ==
    (search_config.max_pages - srch.current_page) * (MaxPageLen + 1)
        + (Len(SearchPages[srch.current_page]) + 1 - srch.k)

TakesNewResult ==
    /\ \E fault \in SearchFaults : ProcessResult(fault)
    /\ search'.results_count = search.results_count + 1

\* C34: whenever the Search step takes up a result, the tabs of the results
\* it has processed before are closed, whether a driver call failed on them
\* or not, and the focus is on the tab of the search results.
C34_ResultTabClosed ==
    [][TakesNewResult => /\ Tabs = search.tabs
                         /\ current_window_handle = search.search_results_handle]_vars

\* the position, among n results, that an index clamped to [0, n - 1] names
Clamped(index, n) == Max(0, Min(index, n - 1)) + 1

\* C35: a finished ClickResult step has opened no result that carries the ad
\* mark; when the page has no result without the mark it has returned False
\* and opened nothing; and when it has one, the index is an integer literal,
\* no driver call raised and the result the clamped index names has a link,
\* the step has opened exactly that result and returned True.
C35_ClickOpensClamped ==
    click.pc = "done" =>
        LET valid == valid_results(click_results, 1)
            at == Clamped(int(click_params.index), Len(valid))
        IN /\ \A i \in 1..Len(click.opened) : ~click_results[click.opened[i]].ad
           /\ valid = <<>> => (~click.returned /\ click.opened = <<>>)
           /\ ( /\ valid # <<>>
                /\ IsInt(click_params.index)
                /\ click.fault = "none"
                /\ click_results[valid[at]].href # "" )
              => (click.returned /\ click.opened = <<valid[at]>>)

\* C38: a finished ExtractText step has tried the step's own selector and
\* then the fixed selectors, in order, up to and including the first one
\* that yields non-empty text (all of them when none does), and has
\* appended exactly one entry when it returned True and none when it
\* returned False.
C38_ExtractStopsAtFirstText ==
    extract.pc = "done" =>
        LET all == selectors(extract_params)
            yielding == {n \in 1..Len(all) :
                            Yield(extract_page, all[n],
                                  extract_params.attribute) # <<>>}
            last == IF yielding = {} THEN Len(all) ELSE SetMin(yielding)
        IN /\ extract.tried = SubSeq(all, 1, last)
           /\ extract.returned => Len(extract.collected) = 1
           /\ ~extract.returned => extract.collected = <<>>

\* the value of a field of the params of a step
Param(step, field) == (CHOOSE kv \in step.params : kv[1] = <<field>>)[2]

\* C36: every step of a plan parse_llm_response returns has the params of
\* its action: exactly the fields of SearchParams, ClickParams or
\* ExtractParams (none for back); the keywords of a search step and the
\* selector of an extract_text step are not empty.
C36_ParamsMatchAction ==
    parsed.raised = NoException =>
        \A i \in 1..Len(parsed.steps) :
            LET step == parsed.steps[i]
            IN /\ {kv[1] : kv \in step.params} =
                      (IF step.action = "back" THEN {} ELSE Fields(step.action))
               /\ step.action = "search" => Param(step, "keywords") # <<>>
               /\ step.action = "extract_text" => Param(step, "selector") # <<>>

\* the messages appended by the call
Appended == SubSeq(told.messages, Len(ToldConstructed) + 1, Len(told.messages))

\* the (result, kind) pairs the history is to receive: for each result
\* marked include_in_memory, in order, its content and then its error
RECURSIVE InMemory(_, _)
InMemory(rs, i) ==
    IF i > Len(rs) THEN <<>>
    ELSE (IF rs[i].include_in_memory /\ rs[i].content # <<>>
          THEN << <<i, "content">> >> ELSE <<>>)
         \o (IF rs[i].include_in_memory /\ rs[i].error # <<>>
             THEN << <<i, "error">> >> ELSE <<>>)
         \o InMemory(rs, i + 1)

IsSuffix(s, t) == Len(s) <= Len(t) /\ s = SubSeq(t, Len(t) - Len(s) + 1, Len(t))

\* C37: add_state_message has appended, for each result marked
\* include_in_memory and in the order of the results, a message for its
\* content and then one for its error, the error message carrying at most
\* max_error_length characters, taken from the end of the error text; after
\* them it has appended exactly one state message, the last of the history.
C37_ResultsThenState ==
    told.pc = "done" =>
        LET n == Len(Appended)
            before == SubSeq(Appended, 1, n - 1)
        IN /\ n >= 1
           /\ Appended[n].kind \in {"state", "state_with_results"}
           /\ [i \in 1..(n - 1) |-> <<before[i].of, before[i].kind>>]
                  = InMemory(told_result, 1)
           /\ \A i \in 1..(n - 1) :
                  /\ before[i].kind = "content"
                        => before[i].text = told_result[before[i].of].content
                  /\ before[i].kind = "error"
                        => /\ Len(before[i].text) <= max_error_length
                           /\ IsSuffix(before[i].text,
                                       told_result[before[i].of].error)

\* C39: a finished call of execute_actions has raised nothing and has
\* returned one result for each action of a prefix of the list; no result
\* but the last carries an error or is done; when actions are left over the
\* last result carries an error or is done; and the result of an action
\* whose name is not registered carries an error.
C39_ExecuteActionsPrefix ==
    controlled.pc = "done" =>
        LET results == controlled.results
            n == Len(results)
        IN /\ controlled.raised = NoException
           /\ n <= Len(ctl_actions)
           /\ \A i \in 1..(n - 1) :
                  results[i].error = "None" /\ ~results[i].is_done
           /\ n < Len(ctl_actions) =>
                  (n >= 1 /\ (results[n].error # "None" \/ results[n].is_done))
           /\ \A i \in 1..n :
                  ctl_actions[i].action \notin ctl_registry
                      => results[i].error # "None"

====
